---- MODULE Spec2Model ----
(***************************************************************************)
(* A model of the lookup engine of ip_whois_tool: the disk cache           *)
(* (whois_tool/cache.py), the resolver retry loop (resolvers/base.py),     *)
(* the merge of resolver results (util.py) and the engine's lookup_ip and  *)
(* process_ips (engine.py).                                                *)
(*                                                                         *)
(* Python strings are sequences of chunks: an identity is a sequence of    *)
(* its characters, a literal of the program is one chunk.  Python values   *)
(* are tagged records, JSON texts are a separate tagged type, so that      *)
(* json.dump / json.load are conversions and not the identity.             *)
(***************************************************************************)
EXTENDS Integers, Sequences, FiniteSets, TLC

VARIABLES
    files,          \* the file system: path -> text, for the files that exist
    now,            \* time.time(), in whole seconds
    last,           \* the last call made on the CacheManager and its result
    lookup_method,  \* WhoisEngine.lookup_method
    use_cache,      \* WhoisEngine.use_cache
    max_retries,    \* WhoisEngine.max_retries
    obs,            \* what the last lookup_ip call did
    batch,          \* the process_ips call in progress, or its return value
    calls,          \* the calls of get and set in progress on one cache entry
    run             \* one sequential run of the engine, attempt by attempt

vars == <<files, now, last, lookup_method, use_cache, max_retries, obs, batch, calls, run>>

(***************************************************************************)
(* Bounds                                                                  *)
(***************************************************************************)
\* CacheManager.ttl (DEFAULT_TTL, 86400 s in the program), scaled down.
Ttl == 2
\* The clock starts after the epoch by more than ttl, as a wall clock does.
Now0 == Ttl + 1
\* WhoisEngine.max_retries is at most this (2 by default in the program).
MaxRetries == 1
\* process_ips is given at most this many identities.
MaxBatch == 3
\* The identities whose cache keys are compared have at most this many
\* characters.
MaxKeyLen == 4
\* merge_whois_results is given at most this many records.
MaxMerge == 3
\* The pool of process_ips has at most this many threads.
MaxWorkers == 2
\* The clock runs long enough for an entry written at Now0 to go stale.
MaxTime == Now0 + Ttl + 1

(***************************************************************************)
(* Python values                                                           *)
(***************************************************************************)
None == [t |-> "None"]
Str(s) == [t |-> "str", s |-> s]
Num(n) == [t |-> "num", n |-> n]
Dict(d) == [t |-> "dict", d |-> d]
List(l) == [t |-> "list", l |-> l]
Tuple(l) == [t |-> "tuple", l |-> l]
\* a datetime.datetime object, as python-whois puts in its results
Datetime == [t |-> "datetime"]

EmptyDict == Dict([k \in {} |-> None])

\* bool(v)
Truthy(v) ==
    CASE v.t = "None" -> FALSE
      [] v.t = "str" -> v.s # <<>>
      [] v.t = "num" -> v.n # 0
      [] v.t = "dict" -> DOMAIN v.d # {}
      [] v.t = "list" -> v.l # <<>>
      [] v.t = "tuple" -> v.l # <<>>
      [] OTHER -> TRUE

\* d.get(key, default) on a dict
dict_get(v, key, default) ==
    IF key \in DOMAIN v.d THEN v.d[key] ELSE default

(***************************************************************************)
(* JSON texts and the json module                                          *)
(***************************************************************************)
JNull == [j |-> "null"]
JString(s) == [j |-> "string", s |-> s]
JNumber(n) == [j |-> "number", n |-> n]
JObject(o) == [j |-> "object", o |-> o]
JArray(a) == [j |-> "array", a |-> a]

\* the text of a file: a JSON document, or text that json.load rejects
JsonText(v) == [c |-> "json", v |-> v]
Garbage == [c |-> "garbage"]
\* what json.dump had written to the file when it raised half way
Truncated == [c |-> "truncated"]
\* a file that open() refuses to read (PermissionError)
Unreadable == [c |-> "unreadable"]
\* a file open(path, 'w') has just created or emptied
Empty == [c |-> "empty"]
\* a file one writer wrote at the start of, over the longer text of another
Mixed == [c |-> "mixed"]

RECURSIVE Serializable(_)
\* json.dump raises TypeError on an object it cannot encode
Serializable(v) ==
    CASE v.t = "dict" -> \A k \in DOMAIN v.d : Serializable(v.d[k])
      [] v.t \in {"list", "tuple"} -> \A i \in DOMAIN v.l : Serializable(v.l[i])
      [] v.t = "datetime" -> FALSE
      [] OTHER -> TRUE

RECURSIVE ToJson(_)
ToJson(v) ==
    CASE v.t = "None" -> JNull
      [] v.t = "str" -> JString(v.s)
      [] v.t = "num" -> JNumber(v.n)
      [] v.t = "dict" -> JObject([k \in DOMAIN v.d |-> ToJson(v.d[k])])
      [] v.t \in {"list", "tuple"} -> JArray([i \in DOMAIN v.l |-> ToJson(v.l[i])])

RECURSIVE FromJson(_)
FromJson(x) ==
    CASE x.j = "null" -> None
      [] x.j = "string" -> Str(x.s)
      [] x.j = "number" -> Num(x.n)
      [] x.j = "object" -> Dict([k \in DOMAIN x.o |-> FromJson(x.o[k])])
      [] x.j = "array" -> List([i \in DOMAIN x.a |-> FromJson(x.a[i])])

\* json.dump(obj, f): the text written, or TypeError
json_dump(obj) ==
    IF Serializable(obj)
    THEN [ok |-> TRUE, text |-> JsonText(ToJson(obj))]
    ELSE [ok |-> FALSE, exc |-> "TypeError", text |-> Truncated]

\* json.load(f): the value read, or JSONDecodeError
json_load(text) ==
    IF text.c = "json"
    THEN [ok |-> TRUE, val |-> FromJson(text.v)]
    ELSE [ok |-> FALSE, exc |-> "JSONDecodeError"]

(***************************************************************************)
(* Strings                                                                 *)
(***************************************************************************)
RECURSIVE replace(_, _, _)
\* s.replace(old, new) for a one-character old
replace(s, old, new) ==
    IF s = <<>> THEN <<>>
    ELSE <<IF Head(s) = old THEN new ELSE Head(s)>> \o replace(Tail(s), old, new)

\* s.endswith(suffix) for a suffix that is one literal
endswith(s, suffix) == s # <<>> /\ s[Len(s)] = suffix

RECURSIVE join(_, _)
\* sep.join(list)
join(sep, l) ==
    IF l = <<>> THEN <<>>
    ELSE IF Len(l) = 1 THEN l[1]
    ELSE l[1] \o sep \o join(sep, Tail(l))

(***************************************************************************)
(* whois_tool/cache.py                                                     *)
(***************************************************************************)
\* CacheManager.cache_dir
cache_dir == <<"data/cache">>

\* os.path.join(cache_dir, name)
path_join(dir, name) == dir \o <<"/">> \o name

_get_cache_path(ip, method) ==
    path_join(cache_dir, replace(ip, ":", "_") \o <<"_", method, ".json">>)

\* what a block of code does: it returns a value or raises an exception
Returns(val) == [kind |-> "return", val |-> val]
Raises(exc) == [kind |-> "raise", exc |-> exc, val |-> None]

\* the try block of get as it would be with >= for > in the age test
get_try_stale_at_ttl(fs, t, ip, method) ==
    LET cache_file == _get_cache_path(ip, method) IN
    IF cache_file \notin DOMAIN fs THEN Returns(None)
    ELSE IF fs[cache_file].c = "unreadable" THEN Raises("PermissionError")
    ELSE IF fs[cache_file].c # "json" THEN Raises("JSONDecodeError")
    ELSE IF json_load(fs[cache_file]).val.t # "dict" THEN Raises("AttributeError")
    ELSE IF dict_get(json_load(fs[cache_file]).val, "timestamp", Num(0)).t # "num"
    THEN Raises("TypeError")
    ELSE IF t - dict_get(json_load(fs[cache_file]).val, "timestamp", Num(0)).n >= Ttl
    THEN Returns(None)
    ELSE Returns(dict_get(json_load(fs[cache_file]).val, "result", None))

\* CacheManager.get, its try block: the record or None returned, or the
\* exception raised by open, json.load, data.get or the subtraction
get_try(fs, t, ip, method) ==
    LET cache_file == _get_cache_path(ip, method) IN
    IF cache_file \notin DOMAIN fs THEN Returns(None)
    ELSE IF fs[cache_file].c = "unreadable" THEN Raises("PermissionError")
    ELSE IF fs[cache_file].c # "json" THEN Raises("JSONDecodeError")
    ELSE IF json_load(fs[cache_file]).val.t # "dict" THEN Raises("AttributeError")
    ELSE IF dict_get(json_load(fs[cache_file]).val, "timestamp", Num(0)).t # "num"
    THEN Raises("TypeError")
    ELSE IF t - dict_get(json_load(fs[cache_file]).val, "timestamp", Num(0)).n > Ttl
    THEN Returns(None)
    ELSE Returns(dict_get(json_load(fs[cache_file]).val, "result", None))

\* the handlers of get as they would be with the first one alone
get_except_decode_only(tried) ==
    IF tried.kind = "raise" /\ tried.exc = "JSONDecodeError" THEN Returns(None)
    ELSE tried

\* CacheManager.get, its handlers: JSONDecodeError and then every other
\* Exception are logged and None is returned
get_except(tried) ==
    IF tried.kind = "raise" /\ tried.exc = "JSONDecodeError" THEN Returns(None)
    ELSE IF tried.kind = "raise" THEN Returns(None)
    ELSE tried

\* CacheManager.get(ip, method): what the call returns or raises
get_call(fs, t, ip, method) == get_except(get_try(fs, t, ip, method))

\* CacheManager.get: the cached record, or None
get(fs, t, ip, method) == get_call(fs, t, ip, method).val

\* set as it would be if it wrote the entry file in place
temp_path_in_place(cache_file) == cache_file

\* the temp file set writes before the rename
temp_path(cache_file) == cache_file \o <<".tmp">>

\* the file system after writing text to path
write_file(fs, path, text) ==
    [p \in DOMAIN fs \cup {path} |-> IF p = path THEN text ELSE fs[p]]

\* the file system after os.replace(src, dst)
os_replace(fs, src, dst) ==
    [p \in (DOMAIN fs \ {src}) \cup {dst} |-> IF p = dst THEN fs[src] ELSE fs[p]]

\* set as it would be without the rename of the temp file onto the entry
set_without_replace(fs, t, ip, method, result) ==
    IF result = None THEN [ret |-> FALSE, files |-> fs]
    ELSE LET cache_file == _get_cache_path(ip, method)
             data == Dict("timestamp" :> Num(t) @@ "result" :> result)
             temp_file == temp_path(cache_file)
             dumped == json_dump(data)
         IN  IF ~dumped.ok
             THEN [ret |-> FALSE, files |-> write_file(fs, temp_file, dumped.text)]
             ELSE [ret |-> TRUE, files |-> write_file(fs, temp_file, dumped.text)]

\* CacheManager.set: its return value and the file system it leaves
set(fs, t, ip, method, result) ==
    IF result = None THEN [ret |-> FALSE, files |-> fs]
    ELSE LET cache_file == _get_cache_path(ip, method)
             data == Dict("timestamp" :> Num(t) @@ "result" :> result)
             temp_file == temp_path(cache_file)
             dumped == json_dump(data)
         IN  IF ~dumped.ok
             THEN [ret |-> FALSE, files |-> write_file(fs, temp_file, dumped.text)]
             ELSE [ret |-> TRUE,
                   files |-> os_replace(write_file(fs, temp_file, dumped.text),
                                        temp_file, cache_file)]

\* the loop body as it would be with >= for > in the age test
clean_removes_at_ttl(text, t) ==
    LET loaded == json_load(text) IN
    IF text.c = "unreadable" THEN FALSE                   \* PermissionError
    ELSE IF ~loaded.ok THEN TRUE
    ELSE LET data == loaded.val IN
         IF data.t # "dict" THEN FALSE
         ELSE LET timestamp == dict_get(data, "timestamp", Num(0)) IN
              IF timestamp.t # "num" THEN FALSE
              ELSE t - timestamp.n >= Ttl

\* clean_expired, the body of its loop: does it delete this file
clean_removes(text, t) ==
    LET loaded == json_load(text) IN
    IF text.c = "unreadable" THEN FALSE                   \* PermissionError
    ELSE IF ~loaded.ok THEN TRUE                               \* JSONDecodeError
    ELSE LET data == loaded.val IN
         IF data.t # "dict" THEN FALSE                    \* AttributeError
         ELSE LET timestamp == dict_get(data, "timestamp", Num(0)) IN
              IF timestamp.t # "num" THEN FALSE           \* TypeError
              ELSE t - timestamp.n > Ttl

\* clean_expired as it would be if it looked at every file of the directory
clean_expired_every_file(fs, t) ==
    LET removed == {p \in DOMAIN fs : clean_removes(fs[p], t)}
    IN  [ret |-> Cardinality(removed),
         files |-> [p \in DOMAIN fs \ removed |-> fs[p]]]

\* CacheManager.clean_expired: the count returned and the file system left
clean_expired(fs, t) ==
    LET removed == {p \in DOMAIN fs : endswith(p, ".json") /\ clean_removes(fs[p], t)}
    IN  [ret |-> Cardinality(removed),
         files |-> [p \in DOMAIN fs \ removed |-> fs[p]]]

(***************************************************************************)
(* whois_tool/util.py                                                      *)
(***************************************************************************)
Digits == {"0", "1", "2", "3", "4", "5", "6", "7", "8", "9"}
HexDigits == Digits \cup {"a", "b", "c", "d", "e", "f", "A", "B", "C", "D", "E", "F"}

RECURSIVE split(_, _)
\* s.split(sep) for a one-character sep: the sequence of the parts
split(s, sep) ==
    IF \A i \in DOMAIN s : s[i] # sep THEN <<s>>
    ELSE LET i == CHOOSE k \in DOMAIN s : s[k] = sep /\ \A m \in 1..(k - 1) : s[m] # sep
         IN  <<SubSeq(s, 1, i - 1)>> \o split(SubSeq(s, i + 1, Len(s)), sep)

RECURSIVE int_value(_)
\* int(s) for a string of decimal digits
int_value(s) ==
    IF s = <<>> THEN 0
    ELSE 10 * int_value(SubSeq(s, 1, Len(s) - 1))
         + (CHOOSE d \in 0..9 : <<"0", "1", "2", "3", "4", "5", "6", "7", "8", "9">>[d + 1] = s[Len(s)])

\* a decimal octet without a leading zero, at most 255
is_octet(octet) ==
    /\ octet # <<>>
    /\ \A k \in DOMAIN octet : octet[k] \in Digits
    /\ Len(octet) <= 3
    /\ (Len(octet) > 1 => octet[1] # "0")
    /\ int_value(octet) <= 255

\* four octets
are_octets(octets) == Len(octets) = 4 /\ \A i \in 1..4 : is_octet(octets[i])

\* ipaddress.IPv4Address accepts: four decimal octets, no leading zeros
is_ipv4(s) == are_octets(split(s, "."))

\* at most four hexadecimal digits
is_hextet(h) == Len(h) <= 4 /\ \A k \in DOMAIN h : h[k] \in HexDigits

\* the parts between the colons make eight hextets: at most nine parts, at
\* most one '::' standing for one hextet or more, every part a hextet
are_hextets(parts) ==
    LET n == Len(parts)
        skips == {i \in 2..(Len(parts) - 1) : parts[i] = <<>>}
    IN  /\ n <= 9
        /\ Cardinality(skips) <= 1
        /\ IF skips # {}
           THEN LET skip_index == CHOOSE i \in skips : TRUE
                    parts_hi == IF parts[1] = <<>> THEN skip_index - 2 ELSE skip_index - 1
                    parts_lo == IF parts[n] = <<>> THEN n - skip_index - 1
                                ELSE n - skip_index
                IN  /\ parts[1] = <<>> => parts_hi = 0
                    /\ parts[n] = <<>> => parts_lo = 0
                    /\ 8 - (parts_hi + parts_lo) >= 1
           ELSE /\ n = 8
                /\ parts[1] # <<>>
                /\ parts[n] # <<>>
        /\ \A i \in DOMAIN parts : is_hextet(parts[i])

\* the last part holds a dotted quad
ends_in_quad(parts) ==
    Len(parts) >= 1 /\ \E k \in DOMAIN parts[Len(parts)] : parts[Len(parts)][k] = "."

\* the address split at its colons: a trailing dotted quad is an IPv4
\* address and stands for two hextets
is_ipv6_address(parts) ==
    /\ Len(parts) >= 3
    /\ IF ends_in_quad(parts)
       THEN /\ is_ipv4(parts[Len(parts)])
            /\ are_hextets(SubSeq(parts, 1, Len(parts) - 1) \o <<<<"0">>, <<"0">>>>)
       ELSE are_hextets(parts)

\* the address of s and its scope, s being cut at its first '%', at pct
is_scoped_ipv6(s, pct) ==
    /\ \A i \in DOMAIN s : s[i] # "/"
    /\ pct > 0 => /\ pct < Len(s)
                  /\ \A i \in (pct + 1)..Len(s) : s[i] # "%"
    /\ is_ipv6_address(split(IF pct > 0 THEN SubSeq(s, 1, pct - 1) ELSE s, ":"))

\* ipaddress.IPv6Address accepts: hextets with at most one '::', an
\* optional dotted quad at the end and an optional %scope
is_ipv6(s) ==
    is_scoped_ipv6(s, IF \E i \in DOMAIN s : s[i] = "%"
                      THEN CHOOSE k \in DOMAIN s :
                               s[k] = "%" /\ \A m \in 1..(k - 1) : s[m] # "%"
                      ELSE 0)

\* ipaddress.ip_address(ip_str) does not raise
ip_address_accepts(ip_str) == is_ipv4(ip_str) \/ is_ipv6(ip_str)

\* validate_ip: the address, or ValueError("Invalid IP address: ...")
validate_ip(ip_str) ==
    IF ip_address_accepts(ip_str)
    THEN [ok |-> TRUE, val |-> ip_str]
    ELSE [ok |-> FALSE, exc |-> "ValueError", msg |-> <<"Invalid IP address: ">> \o ip_str]

is_valid_ip(ip_str) == validate_ip(ip_str).ok

\* filter_valid_ips as it would be if it kept every identity
filter_valid_ips_keep_all(ip_list) == ip_list

RECURSIVE filter_valid_ips_distinct(_)
\* filter_valid_ips as it would be if it kept one of each identity
filter_valid_ips_distinct(ip_list) ==
    IF ip_list = <<>> THEN <<>>
    ELSE LET front == SubSeq(ip_list, 1, Len(ip_list) - 1)
             ip == ip_list[Len(ip_list)]
         IN  IF is_valid_ip(ip) /\ \A k \in DOMAIN front : front[k] # ip
             THEN Append(filter_valid_ips_distinct(front), ip)
             ELSE filter_valid_ips_distinct(front)

\* filter_valid_ips: the valid identities of the list, in order
filter_valid_ips(ip_list) == SelectSeq(ip_list, is_valid_ip)

RECURSIVE lstrip(_)
lstrip(s) == IF s # <<>> /\ Head(s) = " " THEN lstrip(Tail(s)) ELSE s

RECURSIVE rstrip(_)
rstrip(s) ==
    IF s # <<>> /\ s[Len(s)] = " " THEN rstrip(SubSeq(s, 1, Len(s) - 1)) ELSE s

\* s.strip()
strip(s) == lstrip(rstrip(s))

RECURSIVE digits_of(_)
\* the decimal digits of a natural number
digits_of(n) ==
    IF n < 10 THEN <<<<"0", "1", "2", "3", "4", "5", "6", "7", "8", "9">>[n + 1]>>
    ELSE digits_of(n \div 10) \o digits_of(n % 10)

\* str(v), as a string of the model
py_str(v) ==
    CASE v.t = "str" -> v.s
      [] v.t = "None" -> <<"None">>
      [] v.t = "num" -> digits_of(v.n)
      [] OTHER -> <<"<", v.t, ">">>

RECURSIVE digit_run(_)
\* the longest prefix of s made of digits
digit_run(s) ==
    IF s # <<>> /\ Head(s) \in Digits THEN <<Head(s)>> \o digit_run(Tail(s)) ELSE <<>>

RECURSIVE search_as_digits(_)
\* re.search(r'AS(\d+)', s): group 1, or <<>> when there is no match
search_as_digits(s) ==
    IF Len(s) < 3 THEN <<>>
    ELSE IF s[1] = "A" /\ s[2] = "S" /\ s[3] \in Digits
         THEN digit_run(SubSeq(s, 3, Len(s)))
         ELSE search_as_digits(Tail(s))

RECURSIVE search_digits(_)
\* re.search(r'(\d+)', s): group 1, or <<>> when there is no match
search_digits(s) ==
    IF s = <<>> THEN <<>>
    ELSE IF Head(s) \in Digits THEN digit_run(s) ELSE search_digits(Tail(s))

extract_asn(asn_str) ==
    IF ~Truthy(asn_str) THEN None
    ELSE LET text == py_str(asn_str) IN
         IF search_as_digits(text) # <<>> THEN Str(search_as_digits(text))
         ELSE IF search_digits(text) # <<>> THEN Str(search_digits(text))
         ELSE None

\* the first key of keys that the dict holds with a truthy value, stripped
probe_keys(data, keys) ==
    LET hits == {i \in DOMAIN keys : keys[i] \in DOMAIN data.d /\ Truthy(data.d[keys[i]])}
    IN  IF hits = {} THEN None
        ELSE LET i == CHOOSE k \in hits : \A m \in hits : k <= m
             IN  Str(strip(py_str(data.d[keys[i]])))

extract_organization(org_data) ==
    IF ~Truthy(org_data) THEN None
    ELSE IF org_data.t = "str" THEN Str(strip(org_data.s))
    ELSE IF org_data.t = "dict"
         THEN probe_keys(org_data, <<"name", "org", "organization", "orgName">>)
    ELSE None

extract_country(location_data) ==
    IF ~Truthy(location_data) THEN None
    ELSE IF location_data.t = "str" THEN Str(strip(location_data.s))
    ELSE IF location_data.t = "dict"
         THEN probe_keys(location_data, <<"country", "cc", "countryCode", "country_code">>)
    ELSE None

extract_city(location_data) ==
    IF ~Truthy(location_data) THEN None
    ELSE IF location_data.t = "str" THEN None
    ELSE IF location_data.t = "dict"
         THEN probe_keys(location_data, <<"city", "cityName", "city_name">>)
    ELSE None

\* Date and time texts the datetime module parses, as single chunks.
DateChunks == {"2020-01-02"}
TimeChunks == {"03:04:05"}

\* format_timestamp: one canonical text for the date forms it parses, the
\* input text itself for a string it cannot parse
format_timestamp(timestamp) ==
    IF timestamp.t = "None" THEN None
    ELSE IF timestamp.t = "num"
         THEN Str(<<"localtime(">> \o digits_of(timestamp.n) \o <<")">>)
    ELSE IF timestamp.t = "str"
         THEN LET iso == replace(timestamp.s, "Z", "+00:00")
                  n == Len(iso)
                  parses ==
                      /\ n \in {1, 3, 4}
                      /\ iso[1] \in DateChunks
                      /\ n >= 3 => iso[3] \in TimeChunks
                      /\ n = 4 => iso[4] = "+00:00"
              IN  IF parses
                  THEN Str(<<iso[1], " ", IF n >= 3 THEN iso[3] ELSE "00:00:00">>)
                  ELSE IF Truthy(timestamp) THEN timestamp ELSE None
    ELSE IF timestamp.t = "datetime" THEN Str(<<"2020-01-02", " ", "03:04:05">>)
    ELSE Str(py_str(timestamp))

\* normalize_whois_result: raw_result is the dict of a raw lookup result
normalize_whois_result(raw_result, source) ==
    LET raw == raw_result.d
        has(k) == k \in DOMAIN raw
        network ==
            IF has("network") /\ raw["network"].t = "dict"
            THEN LET net == raw["network"].d IN
                 IF "cidr" \in DOMAIN net THEN net["cidr"]
                 ELSE IF "start_address" \in DOMAIN net /\ "end_address" \in DOMAIN net
                      THEN Str(py_str(net["start_address"]) \o <<"-">>
                               \o py_str(net["end_address"]))
                      ELSE None
            ELSE IF has("cidr") THEN raw["cidr"] ELSE None
        nets_with_description ==
            IF has("nets") /\ Truthy(raw["nets"]) /\ raw["nets"].t = "list"
            THEN {i \in DOMAIN raw["nets"].l : "description" \in DOMAIN raw["nets"].l[i].d}
            ELSE {}
        organization ==
            IF has("org") THEN extract_organization(raw["org"])
            ELSE IF has("organization") THEN extract_organization(raw["organization"])
            ELSE IF nets_with_description # {}
                 THEN LET i == CHOOSE k \in nets_with_description :
                                   \A m \in nets_with_description : k <= m
                      IN  extract_organization(raw["nets"].l[i].d["description"])
                 ELSE None
    IN  Dict([k \in {"ip", "network", "asn", "organization", "country", "city",
                     "registered", "source", "raw"} |->
              CASE k = "ip" -> IF has("ip") THEN raw["ip"]
                               ELSE IF has("query") THEN raw["query"] ELSE None
                [] k = "network" -> network
                [] k = "asn" -> IF has("asn") THEN extract_asn(Str(py_str(raw["asn"])))
                                ELSE None
                [] k = "organization" -> organization
                [] k = "country" ->
                       IF has("country") THEN extract_country(raw["country"])
                       ELSE IF has("asn_country_code")
                            THEN extract_country(raw["asn_country_code"])
                            ELSE None
                [] k = "city" -> IF has("city") THEN extract_city(raw["city"]) ELSE None
                [] k = "registered" ->
                       IF has("registered") THEN format_timestamp(raw["registered"])
                       ELSE IF has("created") THEN format_timestamp(raw["created"])
                            ELSE None
                [] k = "source" -> Str(source)
                [] k = "raw" -> raw_result])

\* result.get('source', 'unknown') as it would be if no record had the key
source_of_unknown(result) == <<"unknown">>

\* result.get('source', 'unknown')
source_of(result) == py_str(dict_get(result, "source", Str(<<"unknown">>)))

RECURSIVE merge_fill_later_wins(_, _)
\* the loop as it would be if every later value that is not None were taken
merge_fill_later_wins(merged, rest) ==
    IF rest = <<>> THEN merged
    ELSE LET result == Head(rest)
             keys == DOMAIN result.d \ {"source", "raw"}
             takes(k) == result.d[k] # None
             filled == Dict([k \in DOMAIN merged.d \cup {k \in keys : takes(k)} |->
                             IF k \in keys /\ takes(k) THEN result.d[k] ELSE merged.d[k]])
         IN  merge_fill_later_wins(filled, Tail(rest))

RECURSIVE merge_fill(_, _)
\* merge_whois_results, its loop: the base filled from the later results
merge_fill(merged, rest) ==
    IF rest = <<>> THEN merged
    ELSE LET result == Head(rest)
             keys == DOMAIN result.d \ {"source", "raw"}
             current(k) == dict_get(merged, k, None)
             takes(k) == \/ current(k) = None
                         \/ (current(k) = Str(<<>>) /\ Truthy(result.d[k]))
             filled == Dict([k \in DOMAIN merged.d \cup {k \in keys : takes(k)} |->
                             IF k \in keys /\ takes(k) THEN result.d[k] ELSE merged.d[k]])
         IN  merge_fill(filled, Tail(rest))

\* merge_whois_results as it would be if a label were listed once
merge_whois_results_distinct_sources(results) ==
    IF results = <<>> THEN EmptyDict
    ELSE LET merged == merge_fill(results[1], Tail(results))
             sources == [i \in DOMAIN results |-> source_of(results[i])]
             once == SelectSeq([i \in DOMAIN results |-> i],
                               LAMBDA i : \A j \in 1..(i - 1) : sources[j] # sources[i])
         IN  Dict([k \in DOMAIN merged.d \cup {"source"} |->
                   IF k = "source"
                   THEN Str(join(<<", ">>, [i \in DOMAIN once |-> sources[once[i]]]))
                   ELSE merged.d[k]])

\* merge_whois_results(results)
merge_whois_results(results) ==
    IF results = <<>> THEN EmptyDict
    ELSE LET merged == merge_fill(results[1], Tail(results))
             sources == [i \in DOMAIN results |-> source_of(results[i])]
         IN  Dict([k \in DOMAIN merged.d \cup {"source"} |->
                   IF k = "source" THEN Str(join(<<", ">>, sources)) ELSE merged.d[k]])

(***************************************************************************)
(* whois_tool/resolvers                                                    *)
(***************************************************************************)
Methods == {"auto", "ipwhois", "pythonwhois", "system"}

\* get_resolver_by_method as it would be if auto put the system resolver
\* first
get_resolver_by_method_system_first(method) ==
    CASE method = "auto" ->
             [ok |-> TRUE,
              val |-> <<"SystemWhoisResolver", "IPWhoisResolver", "PythonWhoisResolver">>]
      [] method = "ipwhois" -> [ok |-> TRUE, val |-> <<"IPWhoisResolver">>]
      [] method = "pythonwhois" -> [ok |-> TRUE, val |-> <<"PythonWhoisResolver">>]
      [] method = "system" -> [ok |-> TRUE, val |-> <<"SystemWhoisResolver">>]
      [] OTHER -> [ok |-> FALSE, exc |-> "ValueError",
                   msg |-> <<"Invalid lookup method '", method, "'">>]

\* get_resolver_by_method: the names of the resolvers built, in order
get_resolver_by_method(method) ==
    CASE method = "auto" ->
             [ok |-> TRUE,
              val |-> <<"IPWhoisResolver", "PythonWhoisResolver", "SystemWhoisResolver">>]
      [] method = "ipwhois" -> [ok |-> TRUE, val |-> <<"IPWhoisResolver">>]
      [] method = "pythonwhois" -> [ok |-> TRUE, val |-> <<"PythonWhoisResolver">>]
      [] method = "system" -> [ok |-> TRUE, val |-> <<"SystemWhoisResolver">>]
      [] OTHER -> [ok |-> FALSE, exc |-> "ValueError",
                   msg |-> <<"Invalid lookup method '", method, "'">>]

\* One acquisition attempt (_perform_lookup): raw data, or ValueError(msg)
Acquired(raw) == [ok |-> TRUE, raw |-> raw]
AcquireFailed(msg) == [ok |-> FALSE, msg |-> msg]

RECURSIVE lookup_loop(_, _, _, _, _)
\* BaseResolver.lookup, the retry loop from retry_count on; attempts[k] is
\* what the k-th call of _perform_lookup does
lookup_loop(name, ip, attempts, retries, retry_count) ==
    IF ~(retry_count <= retries)
    THEN [kind |-> "return", val |-> None, tries |-> retry_count]
    ELSE LET attempt == attempts[retry_count + 1] IN
         IF attempt.ok
         THEN LET raw_result ==
                      IF "ip" \in DOMAIN attempt.raw.d THEN attempt.raw
                      ELSE Dict(attempt.raw.d @@ ("ip" :> Str(ip)))
              IN  [kind |-> "return",
                   val |-> normalize_whois_result(raw_result, <<name>>),
                   tries |-> retry_count + 1]
         ELSE IF retry_count + 1 <= retries
              THEN lookup_loop(name, ip, attempts, retries, retry_count + 1)
              ELSE [kind |-> "raise", exc |-> "ValueError",
                    msg |-> <<"Lookup failed: ">> \o attempt.msg,
                    tries |-> retry_count + 1]

\* BaseResolver.lookup(ip, timeout, max_retries)
lookup(name, ip, attempts, retries) ==
    IF ~ip_address_accepts(ip)
    THEN [kind |-> "raise", exc |-> "ValueError", msg |-> validate_ip(ip).msg,
          tries |-> 0]
    ELSE lookup_loop(name, ip, attempts, retries, 0)

(***************************************************************************)
(* Identities and what the sources answer                                  *)
(***************************************************************************)
\* "8.8.8.8", "::1" and the malformed "999.1.1.1"
Ip4 == <<"8", ".", "8", ".", "8", ".", "8">>
Ip6 == <<":", ":", "1">>
BadIp == <<"9", "9", "9", ".", "1", ".", "1", ".", "1">>
ValidIps == {Ip4, Ip6}
Identities == ValidIps \cup {BadIp}
\* a string no address parser accepts, '../x', and a loopback address with
\* a scope id, '::1%e'
OutsideIp == <<".", ".", "/", "x">>
ScopedIp == <<":", ":", "1", "%", "e">>
\* the strings a caller passes to lookup_ip
LookupStrings == Identities \cup {OutsideIp, ScopedIp}

\* Raw data as each source returns it: ipwhois a mapping of strings,
\* python-whois a mapping that holds datetime objects, the system resolver
\* its parsed fields, the identity and the raw output.
RawIPWhois == Dict("asn" :> Str(<<"A", "S", "1", "5">>)
                   @@ "asn_country_code" :> Str(<<"US">>))
RawPythonWhois == Dict("org" :> Str(<<"ACME">>) @@ "creation_date" :> Datetime)
RawSystem(ip) == Dict("ip" :> Str(ip) @@ "organization" :> Str(<<"Example", " ">>)
                      @@ "country" :> Str(<<"DE">>)
                      @@ "raw_output" :> Str(<<"whois output">>))

\* what one call of a resolver's _perform_lookup can do
AcqOutcomes(name, ip) ==
    CASE name = "IPWhoisResolver" ->
             {Acquired(RawIPWhois), AcquireFailed(<<"HTTP lookup error">>)}
      [] name = "PythonWhoisResolver" ->
             {Acquired(RawPythonWhois),
              AcquireFailed(<<"Could not resolve IP ">> \o ip \o <<" to domain">>)}
      [] name = "SystemWhoisResolver" ->
             {Acquired(RawSystem(ip)),
              AcquireFailed(<<"Timeout expired for whois command">>),
              AcquireFailed(<<"No output from whois command">>)}

\* what the successive attempts of one lookup can do
AcqSeqs(name, ip, retries) ==
    IF retries < 0 THEN {<<>>} ELSE [1..(retries + 1) -> AcqOutcomes(name, ip)]

\* One attempt sequence for each distinct result a resolver's lookup can
\* have: attempts after the first success are never made.
DistinctAcqSeqs(name, ip, retries) ==
    LET all == AcqSeqs(name, ip, retries)
        results == {lookup(name, ip, a, retries) : a \in all}
    IN  {CHOOSE a \in all : lookup(name, ip, a, retries) = r : r \in results}

(***************************************************************************)
(* whois_tool/engine.py                                                    *)
(***************************************************************************)
\* what lookup_ip has collected before the loop over the resolvers
Collected0 ==
    [results |-> <<>>, errors |-> <<>>, invoked |-> <<>>, tried |-> <<>>,
     stopped |-> FALSE, raised |-> FALSE, msg |-> <<>>]

\* the body of the loop as it would be if it stopped at the first success
\* in every mode
loop_body_first_success(acc, resolver, result, method) ==
    LET called == [acc EXCEPT !.invoked = Append(@, resolver),
                              !.tried = Append(@, result)]
    IN  IF result.kind = "return"
        THEN [called EXCEPT !.results = Append(@, result.val), !.stopped = TRUE]
        ELSE IF method # "auto"
             THEN [called EXCEPT !.errors = Append(@, result.msg),
                                 !.stopped = TRUE,
                                 !.raised = TRUE,
                                 !.msg = <<"Lookup with ", resolver, " failed: ">>
                                         \o result.msg]
             ELSE [called EXCEPT !.errors = Append(@, result.msg)]

\* the body of the loop as it would be if a failure were recorded in every
\* mode and never raised from inside the loop
loop_body_absorbing(acc, resolver, result, method) ==
    LET called == [acc EXCEPT !.invoked = Append(@, resolver),
                              !.tried = Append(@, result)]
    IN  IF result.kind = "return"
        THEN [called EXCEPT !.results = Append(@, result.val),
                            !.stopped = (method # "auto")]
        ELSE [called EXCEPT !.errors = Append(@, result.msg)]

\* lookup_ip, the body of the loop over the resolvers, once the resolver's
\* lookup has returned or raised: the result or the error is collected; in
\* a mode other than auto a success breaks the loop and a failure is raised
\* again with the resolver's name
loop_body(acc, resolver, result, method) ==
    LET called == [acc EXCEPT !.invoked = Append(@, resolver),
                              !.tried = Append(@, result)]
    IN  IF result.kind = "return"
        THEN [called EXCEPT !.results = Append(@, result.val),
                            !.stopped = (method # "auto")]
        ELSE IF method # "auto"
             THEN [called EXCEPT !.errors = Append(@, result.msg),
                                 !.stopped = TRUE,
                                 !.raised = TRUE,
                                 !.msg = <<"Lookup with ", resolver, " failed: ">>
                                         \o result.msg]
             ELSE [called EXCEPT !.errors = Append(@, result.msg)]

RECURSIVE resolve_loop(_, _, _, _, _, _)
\* lookup_ip, the loop over the resolvers: the results and errors
\* collected, the resolvers whose lookup was called, the error raised
resolve_loop(resolvers, ip, outcomes, method, retries, acc) ==
    IF resolvers = <<>> \/ acc.stopped THEN acc
    ELSE resolve_loop(Tail(resolvers), ip, outcomes, method, retries,
                      loop_body(acc, Head(resolvers),
                                lookup(Head(resolvers), ip,
                                       outcomes[Head(resolvers)], retries),
                                method))

\* every way the resolvers' acquisition attempts can go for one lookup
LookupOutcomes(ip, retries) ==
    {("IPWhoisResolver" :> a @@ "PythonWhoisResolver" :> b @@ "SystemWhoisResolver" :> c) :
         a \in DistinctAcqSeqs("IPWhoisResolver", ip, retries),
         b \in DistinctAcqSeqs("PythonWhoisResolver", ip, retries),
         c \in DistinctAcqSeqs("SystemWhoisResolver", ip, retries)}

\* the loop of lookup_ip over the resolvers of method, tabulated
ResolveTable ==
    [method \in Methods |-> [ip \in LookupStrings |-> [retries \in -1..MaxRetries |->
        [outcomes \in LookupOutcomes(ip, retries) |->
            resolve_loop(get_resolver_by_method(method).val, ip, outcomes, method,
                         retries, Collected0)]]]]

\* lookup_ip after the loop as it would be if a failed cache write were
\* raised to the caller
after_loop_strict_cache(fs, t, method, caching, ip, resolvers, acc) ==
    LET went == [cache_read |-> caching, constructed |-> resolvers,
                 invoked |-> acc.invoked, tried |-> acc.tried,
                 cache_set |-> FALSE, files |-> fs]
    IN  IF acc.raised
        THEN [kind |-> "raise", exc |-> "ValueError", msg |-> acc.msg] @@ went
        ELSE IF acc.results = <<>>
        THEN [kind |-> "raise", exc |-> "ValueError",
              msg |-> <<"All lookup methods failed for ">> \o ip] @@ went
        ELSE IF Len(acc.results) > 1
                /\ \E i \in DOMAIN acc.results : acc.results[i] = None
        THEN [kind |-> "raise", exc |-> "AttributeError",
              msg |-> <<"'NoneType' object has no attribute">>] @@ went
        ELSE LET final_result ==
                     IF Len(acc.results) > 1
                     THEN merge_whois_results(acc.results)
                     ELSE acc.results[1]
                 saved == IF caching
                          THEN set(fs, t, ip, method, final_result)
                          ELSE [ret |-> TRUE, files |-> fs]
             IN  IF ~saved.ret
                 THEN [kind |-> "raise", exc |-> "OSError",
                       msg |-> <<"Couldn't cache result">>]
                      @@ [went EXCEPT !.cache_set = caching, !.files = saved.files]
                 ELSE [kind |-> "return", val |-> final_result]
                      @@ [went EXCEPT !.cache_set = caching,
                                      !.files = saved.files]

\* lookup_ip after the loop over the resolvers, which collected acc
after_loop(fs, t, method, caching, ip, resolvers, acc) ==
    LET went == [cache_read |-> caching, constructed |-> resolvers,
                 invoked |-> acc.invoked, tried |-> acc.tried,
                 cache_set |-> FALSE, files |-> fs]
    IN  IF acc.raised
        THEN [kind |-> "raise", exc |-> "ValueError", msg |-> acc.msg] @@ went
        ELSE IF acc.results = <<>>
        THEN [kind |-> "raise", exc |-> "ValueError",
              msg |-> <<"All lookup methods failed for ">> \o ip] @@ went
        ELSE IF Len(acc.results) > 1
                /\ \E i \in DOMAIN acc.results : acc.results[i] = None
        THEN \* merge_whois_results on a result that is None
             [kind |-> "raise", exc |-> "AttributeError",
              msg |-> <<"'NoneType' object has no attribute">>] @@ went
        ELSE LET final_result ==
                     IF Len(acc.results) > 1
                     THEN merge_whois_results(acc.results)
                     ELSE acc.results[1]
                 saved == IF caching
                          THEN set(fs, t, ip, method, final_result)
                          ELSE [ret |-> FALSE, files |-> fs]
             IN  [kind |-> "return", val |-> final_result]
                 @@ [went EXCEPT !.cache_set = caching,
                                 !.files = saved.files]

\* WhoisEngine.lookup_ip(ip): what it returns or raises, the file system it
\* leaves, and what it did on the way
lookup_ip(fs, t, method, caching, retries, ip, outcomes) ==
    [ip |-> ip] @@
    LET cached == IF caching THEN get(fs, t, ip, method) ELSE None
        did == [cache_read |-> caching, constructed |-> <<>>, invoked |-> <<>>,
                tried |-> <<>>, cache_set |-> FALSE, files |-> fs]
    IN  IF caching /\ Truthy(cached)
        THEN [kind |-> "return", val |-> cached] @@ did
        ELSE LET built == get_resolver_by_method(method) IN
             IF ~built.ok
             THEN [kind |-> "raise", exc |-> built.exc, msg |-> built.msg] @@ did
             ELSE after_loop(fs, t, method, caching, ip, built.val,
                             ResolveTable[method][ip][retries][outcomes])

(***************************************************************************)
(* Inputs                                                                  *)
(***************************************************************************)
\* a record as IPWhoisResolver.lookup returns it for ip
RecordOf(ip) ==
    normalize_whois_result(Dict(RawIPWhois.d @@ ("ip" :> Str(ip))), <<"IPWhoisResolver">>)
\* a record as PythonWhoisResolver.lookup returns it: its raw holds a datetime
DatedRecordOf(ip) ==
    normalize_whois_result(Dict(RawPythonWhois.d @@ ("ip" :> Str(ip))), <<"PythonWhoisResolver">>)

\* the results CacheManager.set is called with
SetResults == {None, EmptyDict, RecordOf(Ip4), DatedRecordOf(Ip4)}

\* the text of a cache entry file
EntryText(timestamp, result) ==
    JsonText(ToJson(Dict("timestamp" :> timestamp @@ "result" :> result)))

\* Entries an earlier run left: written just now, ttl seconds ago, and
\* longer ago than ttl.
PlantedEntries ==
    {EntryText(Num(Now0), RecordOf(Ip4)),
     EntryText(Num(Now0 - Ttl), RecordOf(Ip4)),
     EntryText(Num(Now0 - Ttl - 1), RecordOf(Ip4))}

\* Texts a cache file left by an earlier run, or damaged since, can hold.
PlantedTexts ==
    PlantedEntries
    \cup {Garbage,
          JsonText(JArray(<<>>)),
          JsonText(ToJson(Dict("result" :> RecordOf(Ip4)))),
          JsonText(ToJson(Dict("timestamp" :> Num(Now0)))),
          EntryText(Str(<<"yesterday">>), RecordOf(Ip4)),
          Unreadable}

NoFiles == [p \in {} |-> Garbage]

\* the cache directory as a run finds it: empty, or holding one file
PlantedFiles(method, texts) ==
    {NoFiles} \cup {(_get_cache_path(Ip4, method) :> text) : text \in texts}

(***************************************************************************)
(* State machine                                                           *)
(***************************************************************************)
NoCall == [op |-> "none"]
NoLookup == [kind |-> "none"]
Idle == [pc |-> "idle"]
\* no run of the engine is followed attempt by attempt
NoRun == [pc |-> "none"]

\* a file handle that is not open, and one whose file has been replaced
NoFd == <<>>
Unlinked == <<"(deleted)">>
\* the two threads that call set and the thread that calls get
Writers == {"w1", "w2"}
Reader == "r"
NotCalled(ret) ==
    [pc |-> "idle", result |-> None, at |-> 0, pre |-> NoFiles, fd |-> NoFd,
     snap |-> Empty, exc |-> "", kind |-> "none", ret |-> ret]
NoCalls == [c \in Writers \cup {Reader} |-> IF c = Reader THEN NotCalled(None) ELSE NotCalled(FALSE)]

\* time passes
Tick ==
    /\ now < MaxTime
    /\ now' = now + 1
    /\ UNCHANGED <<files, last, lookup_method, use_cache, max_retries, obs, batch, calls, run>>

\* a call of CacheManager.get(ip, method)
CacheGet(ip, method) ==
    /\ last' = [op |-> "get", ip |-> ip, method |-> method, at |-> now, pre |-> files,
                kind |-> get_call(files, now, ip, method).kind,
                ret |-> get(files, now, ip, method),
                follows_set |-> /\ last.op = "set"
                                /\ last.ret
                                /\ last.ip = ip
                                /\ last.method = method]
    /\ UNCHANGED <<files, now, lookup_method, use_cache, max_retries, obs, batch, calls, run>>

\* a call of CacheManager.set(ip, method, result)
CacheSet(ip, method, result) ==
    LET done == set(files, now, ip, method, result) IN
    /\ files' = done.files
    /\ last' = [op |-> "set", ip |-> ip, method |-> method, at |-> now, pre |-> files,
                result |-> result, ret |-> done.ret]
    /\ UNCHANGED <<now, lookup_method, use_cache, max_retries, obs, batch, calls, run>>

\* a call of CacheManager.clean_expired()
CleanExpired ==
    LET done == clean_expired(files, now) IN
    /\ files' = done.files
    /\ last' = [op |-> "clean", at |-> now, pre |-> files, ret |-> done.ret]
    /\ UNCHANGED <<now, lookup_method, use_cache, max_retries, obs, batch, calls, run>>

\* The cache used on its own, under the key of one method.
InitCache ==
    /\ lookup_method \in {"auto", "system"}
    /\ use_cache = TRUE
    /\ max_retries = 0
    /\ files \in PlantedFiles(lookup_method, PlantedTexts)
    /\ now = Now0
    /\ last = NoCall
    /\ obs = NoLookup
    /\ batch = Idle
    /\ calls = NoCalls
    /\ run = NoRun

NextCache ==
    \/ Tick
    \/ \E ip \in ValidIps : CacheGet(ip, lookup_method)
    \/ \E ip \in ValidIps, result \in SetResults : CacheSet(ip, lookup_method, result)
    \/ CleanExpired

SpecCache == InitCache /\ [][NextCache]_vars

(***************************************************************************)
(* The cache directory as interrupted writes leave it                      *)
(***************************************************************************)
\* clean_expired from its first line: without the cache directory it
\* returns 0 at once
clean_expired_call(exists, fs, t) ==
    IF ~exists THEN [ret |-> 0, files |-> fs] ELSE clean_expired(fs, t)

\* a call of clean_expired(); obs.exists tells whether the cache directory
\* is there
CleanExpiredCall ==
    LET done == clean_expired_call(obs.exists, files, now) IN
    /\ files' = done.files
    /\ last' = [op |-> "clean", at |-> now, pre |-> files, ret |-> done.ret,
                exists |-> obs.exists]
    /\ UNCHANGED <<now, lookup_method, use_cache, max_retries, obs, batch, calls, run>>

\* what interrupted writes leave in a temp file: a text cut short, or a
\* whole entry whose rename never happened
LeftoverTexts ==
    {Truncated, EntryText(Num(Now0), RecordOf(Ip4)),
     EntryText(Num(Now0 - Ttl - 1), RecordOf(Ip4))}

\* The cache directory is missing, or it holds for 8.8.8.8 an entry, a
\* leftover temp file, both or neither.
InitLeftovers ==
    /\ lookup_method = "auto"
    /\ use_cache = TRUE
    /\ max_retries = 0
    /\ obs \in {[kind |-> "dir", exists |-> exists] : exists \in BOOLEAN}
    /\ files \in IF obs.exists
                 THEN {entry @@ leftover :
                           entry \in PlantedFiles(lookup_method, PlantedEntries \cup {Garbage}),
                           leftover \in {NoFiles} \cup
                               {(temp_path(_get_cache_path(Ip4, lookup_method)) :> text) :
                                    text \in LeftoverTexts}}
                 ELSE {NoFiles}
    /\ now = Now0
    /\ last = NoCall
    /\ batch = Idle
    /\ calls = NoCalls
    /\ run = NoRun

NextLeftovers ==
    \/ Tick
    \/ \E ip \in ValidIps : CacheGet(ip, lookup_method)
    \/ CleanExpiredCall

SpecLeftovers == InitLeftovers /\ [][NextLeftovers]_vars

(***************************************************************************)
(* Calls of get and set that run at the same time on one cache entry, step *)
(* by step: each action is one system call, or the code between two of     *)
(* them.                                                                   *)
(***************************************************************************)
\* the identity whose entry the threads use
RaceIp == Ip4
EntryFile == _get_cache_path(RaceIp, lookup_method)
TempFile == temp_path(EntryFile)

\* the handler of set as it would be if it caught nothing
set_except_reraise(call, exc) ==
    [call EXCEPT !.pc = "raised", !.kind = "raise", !.exc = exc, !.fd = NoFd]

\* CacheManager.set, its handler: an Exception is logged and False is
\* returned; KeyboardInterrupt is no Exception and leaves the call
set_except(call, exc) ==
    IF exc = "KeyboardInterrupt"
    THEN [call EXCEPT !.pc = "raised", !.kind = "raise", !.exc = exc, !.fd = NoFd]
    ELSE [call EXCEPT !.pc = "returned", !.kind = "return", !.ret = FALSE,
                      !.exc = exc, !.fd = NoFd]

\* data, as set builds it, and the text json.dump makes of it
set_data(call) == Dict("timestamp" :> Num(call.at) @@ "result" :> call.result)

\* what a file can hold after text was written at its start over what it
\* held: text, or text followed by the rest of a longer text
written_over(held, text) ==
    IF held \in {Empty, text} THEN {text} ELSE {text, Mixed}

\* what a file can hold after a write that stopped half way
partly_written_over(held) ==
    IF held = Empty THEN {Truncated} ELSE {Truncated, Mixed}

\* what the file behind a handle holds
held_by(fs, call) == IF call.fd \in DOMAIN fs THEN fs[call.fd] ELSE call.snap

\* the file system after text went through the handle of call
write_fd(fs, call, text) ==
    IF call.fd \in DOMAIN fs THEN write_file(fs, call.fd, text) ELSE fs

\* a call after another thread's os.replace(src, dst): a handle on src is
\* now a handle on dst, a handle on the old dst keeps the file it had
after_replace(call, fs, src, dst) ==
    IF call.fd = src THEN [call EXCEPT !.fd = dst]
    ELSE IF call.fd = dst THEN [call EXCEPT !.fd = Unlinked, !.snap = fs[dst]]
    ELSE call

\* set, up to the opening of the temp file: None is refused, data is built
SetBegin(w, result) ==
    /\ calls[w].pc = "idle"
    /\ calls' = [calls EXCEPT ![w] =
            IF result = None
            THEN [@ EXCEPT !.pc = "returned", !.kind = "return", !.ret = FALSE,
                           !.result = result, !.at = now, !.pre = files]
            ELSE [@ EXCEPT !.pc = "built", !.result = result, !.at = now,
                           !.pre = files]]
    /\ UNCHANGED <<files, now, last, lookup_method, use_cache, max_retries, obs, batch, run>>

\* the open of set as it would be if it opened the entry file itself
SetOpenEntryFile(w, fails) ==
    /\ calls[w].pc = "built"
    /\ IF fails
       THEN /\ calls' = [calls EXCEPT ![w] = set_except(@, "OSError")]
            /\ files' = files
       ELSE /\ calls' = [calls EXCEPT ![w] = [@ EXCEPT !.pc = "opened", !.fd = EntryFile]]
            /\ files' = write_file(files, EntryFile, Empty)
    /\ UNCHANGED <<now, last, lookup_method, use_cache, max_retries, obs, batch, run>>

\* open(temp_file, 'w'): the file is created or emptied, or open raises
SetOpen(w, fails) ==
    /\ calls[w].pc = "built"
    /\ IF fails
       THEN /\ calls' = [calls EXCEPT ![w] = set_except(@, "OSError")]
            /\ files' = files
       ELSE /\ calls' = [calls EXCEPT ![w] = [@ EXCEPT !.pc = "opened", !.fd = TempFile]]
            /\ files' = write_file(files, TempFile, Empty)
    /\ UNCHANGED <<now, last, lookup_method, use_cache, max_retries, obs, batch, run>>

\* json.dump(data, f) and the end of the with block, which closes the file:
\* the text is written, or json.dump or the write raises half way
SetDump(w, fails) ==
    /\ calls[w].pc = "opened"
    /\ IF ~json_dump(set_data(calls[w])).ok
       THEN /\ calls' = [calls EXCEPT ![w] = set_except(@, "TypeError")]
            /\ \E left \in partly_written_over(held_by(files, calls[w])) :
                   files' = write_fd(files, calls[w], left)
       ELSE IF fails
       THEN /\ calls' = [calls EXCEPT ![w] = set_except(@, "OSError")]
            /\ \E left \in partly_written_over(held_by(files, calls[w])) :
                   files' = write_fd(files, calls[w], left)
       ELSE /\ calls' = [calls EXCEPT ![w] = [@ EXCEPT !.pc = "written", !.fd = NoFd]]
            /\ \E left \in written_over(held_by(files, calls[w]),
                                        json_dump(set_data(calls[w])).text) :
                   files' = write_fd(files, calls[w], left)
    /\ UNCHANGED <<now, last, lookup_method, use_cache, max_retries, obs, batch, run>>

\* os.replace(temp_file, cache_file) and return True, or os.replace raises
SetReplace(w, fails) ==
    /\ calls[w].pc = "written"
    /\ IF TempFile \notin DOMAIN files
       THEN /\ calls' = [calls EXCEPT ![w] = set_except(@, "FileNotFoundError")]
            /\ files' = files
       ELSE IF fails
       THEN /\ calls' = [calls EXCEPT ![w] = set_except(@, "OSError")]
            /\ files' = files
       ELSE /\ calls' = [c \in DOMAIN calls |->
                    IF c = w
                    THEN [calls[c] EXCEPT !.pc = "returned", !.kind = "return",
                                          !.ret = TRUE]
                    ELSE after_replace(calls[c], files, TempFile, EntryFile)]
            /\ files' = os_replace(files, TempFile, EntryFile)
    /\ UNCHANGED <<now, last, lookup_method, use_cache, max_retries, obs, batch, run>>

\* the thread is interrupted inside set: before the temp file is opened,
\* while it is written, or before the rename
SetInterrupt(w) ==
    /\ calls[w].pc \in {"built", "opened", "written"}
    /\ calls' = [calls EXCEPT ![w] = set_except(@, "KeyboardInterrupt")]
    /\ IF calls[w].pc = "opened"
       THEN \E left \in {held_by(files, calls[w])}
                            \cup partly_written_over(held_by(files, calls[w])) :
                files' = write_fd(files, calls[w], left)
       ELSE files' = files
    /\ UNCHANGED <<now, last, lookup_method, use_cache, max_retries, obs, batch, run>>

\* get, up to the opening of the file: os.path.exists(cache_file)
GetBegin ==
    /\ calls[Reader].pc = "idle"
    /\ calls' = [calls EXCEPT ![Reader] =
            IF EntryFile \notin DOMAIN files
            THEN [@ EXCEPT !.pc = "returned", !.kind = "return", !.ret = None,
                           !.at = now, !.pre = files]
            ELSE [@ EXCEPT !.pc = "exists", !.at = now, !.pre = files]]
    /\ UNCHANGED <<files, now, last, lookup_method, use_cache, max_retries, obs, batch, run>>

\* open(cache_file)
GetOpen ==
    /\ calls[Reader].pc = "exists"
    /\ calls' = [calls EXCEPT ![Reader] =
            IF EntryFile \notin DOMAIN files
            THEN [@ EXCEPT !.pc = "returned", !.exc = "FileNotFoundError",
                           !.kind = get_except(Raises("FileNotFoundError")).kind,
                           !.ret = get_except(Raises("FileNotFoundError")).val]
            ELSE [@ EXCEPT !.pc = "opened", !.fd = EntryFile]]
    /\ UNCHANGED <<files, now, last, lookup_method, use_cache, max_retries, obs, batch, run>>

\* json.load(f) and the rest of get, on the file the handle is open on
GetRead ==
    /\ calls[Reader].pc = "opened"
    /\ calls' = [calls EXCEPT ![Reader] =
            [@ EXCEPT !.pc = "returned", !.fd = NoFd, !.at = now,
                      !.snap = held_by(files, calls[Reader]),
                      !.kind = get_call(EntryFile :> held_by(files, calls[Reader]),
                                        now, RaceIp, lookup_method).kind,
                      !.ret = get(EntryFile :> held_by(files, calls[Reader]),
                                  now, RaceIp, lookup_method)]]
    /\ UNCHANGED <<files, now, last, lookup_method, use_cache, max_retries, obs, batch, run>>

\* Two threads call set and one calls get, all for one key, on a cache
\* directory that holds an entry of some age for it, or none.
InitRace ==
    /\ lookup_method = "auto"
    /\ use_cache = TRUE
    /\ max_retries = 0
    /\ files \in PlantedFiles(lookup_method, PlantedEntries)
    /\ now = Now0
    /\ last = NoCall
    /\ obs = NoLookup
    /\ batch = Idle
    /\ calls = NoCalls
    /\ run = NoRun

NextRace ==
    \/ \E w \in Writers, result \in SetResults : SetBegin(w, result)
    \/ \E w \in Writers, fails \in BOOLEAN : SetOpen(w, fails)
    \/ \E w \in Writers, fails \in BOOLEAN : SetDump(w, fails)
    \/ \E w \in Writers, fails \in BOOLEAN : SetReplace(w, fails)
    \/ \E w \in Writers : SetInterrupt(w)
    \/ GetBegin
    \/ GetOpen
    \/ GetRead

SpecRace == InitRace /\ [][NextRace]_vars

(***************************************************************************)
(* clean_expired step by step, beside a thread that calls set              *)
(***************************************************************************)
\* clean_expired up to its loop: the time is read once, the directory is
\* listed, and the names that do not end in .json are passed over
CleanBegin ==
    /\ last.op = "none"
    /\ last' = [op |-> "clean", pc |-> "listed", at |-> now, pre |-> files,
                todo |-> {p \in DOMAIN files : endswith(p, ".json")},
                full_path |-> <<>>, removed |-> {}, ret |-> 0]
    /\ UNCHANGED <<files, now, lookup_method, use_cache, max_retries, obs, batch, calls, run>>

\* open(full_path) and json.load(f) for one listed name, and the test of
\* its age against the time read at the start
CleanLoad(full_path) ==
    /\ last.op = "clean"
    /\ last.pc = "listed"
    /\ full_path \in last.todo
    /\ last' = IF full_path \in DOMAIN files /\ clean_removes(files[full_path], last.at)
               THEN [last EXCEPT !.pc = "removing", !.full_path = full_path]
               ELSE [last EXCEPT !.todo = @ \ {full_path}]
    /\ UNCHANGED <<files, now, lookup_method, use_cache, max_retries, obs, batch, calls, run>>

\* os.remove(full_path) and cleaned += 1: the file now at the path goes; a
\* path with no file raises, which is caught and not counted
CleanRemove ==
    /\ last.op = "clean"
    /\ last.pc = "removing"
    /\ IF last.full_path \in DOMAIN files
       THEN /\ files' = [p \in DOMAIN files \ {last.full_path} |-> files[p]]
            /\ last' = [last EXCEPT !.pc = "listed", !.todo = @ \ {last.full_path},
                                    !.ret = @ + 1,
                                    !.removed = @ \cup {[text |-> files[last.full_path],
                                                         at |-> now]}]
       ELSE /\ files' = files
            /\ last' = [last EXCEPT !.pc = "listed", !.todo = @ \ {last.full_path}]
    /\ UNCHANGED <<now, lookup_method, use_cache, max_retries, obs, batch, calls, run>>

\* the loop is over: return cleaned
CleanReturn ==
    /\ last.op = "clean"
    /\ last.pc = "listed"
    /\ last.todo = {}
    /\ last' = [last EXCEPT !.pc = "returned"]
    /\ UNCHANGED <<files, now, lookup_method, use_cache, max_retries, obs, batch, calls, run>>

\* One thread calls clean_expired while another calls set for a key whose
\* entry, if there is one, has some age.
InitSweep ==
    /\ lookup_method = "auto"
    /\ use_cache = TRUE
    /\ max_retries = 0
    /\ files \in PlantedFiles(lookup_method, PlantedEntries \cup {Garbage})
    /\ now = Now0
    /\ last = NoCall
    /\ obs = NoLookup
    /\ batch = Idle
    /\ calls = NoCalls
    /\ run = NoRun

NextSweep ==
    \/ Tick
    \/ \E result \in SetResults : SetBegin("w1", result)
    \/ \E fails \in BOOLEAN : SetOpen("w1", fails)
    \/ \E fails \in BOOLEAN : SetDump("w1", fails)
    \/ \E fails \in BOOLEAN : SetReplace("w1", fails)
    \/ CleanBegin
    \/ last.op = "clean" /\ \E full_path \in last.todo : CleanLoad(full_path)
    \/ CleanRemove
    \/ CleanReturn

SpecSweep == InitSweep /\ [][NextSweep]_vars

(***************************************************************************)
(* The cache keys of the identities validate_ip accepts                    *)
(***************************************************************************)
\* the characters the identities are made of
KeyChars == {"1", ":", "%", "_"}

RECURSIVE StringsUpTo(_, _)
\* the strings of at most n characters of chars
StringsUpTo(chars, n) ==
    IF n = 0 THEN {<<>>}
    ELSE StringsUpTo(chars, n - 1)
            \cup {<<c>> \o s : c \in chars, s \in {t \in StringsUpTo(chars, n - 1) : Len(t) = n - 1}}

\* the identities a caller can pass to lookup_ip and have accepted
KeyIdentities ==
    {ip \in StringsUpTo(KeyChars, MaxKeyLen) \cup ValidIps : ip_address_accepts(ip)}

\* two lookups, each of an identity with a method
KeyPairs ==
    {[kind |-> "pair", ip |-> ip, method |-> method,
      other_ip |-> other_ip, other_method |-> other_method] :
        ip \in KeyIdentities, method \in Methods,
        other_ip \in KeyIdentities, other_method \in Methods}

\* the cache paths of the two lookups
DeriveKeys ==
    /\ obs.kind = "pair"
    /\ obs' = [kind |-> "keys",
               ip |-> obs.ip, method |-> obs.method,
               path |-> _get_cache_path(obs.ip, obs.method),
               other_ip |-> obs.other_ip, other_method |-> obs.other_method,
               other_path |-> _get_cache_path(obs.other_ip, obs.other_method)]
    /\ UNCHANGED <<files, now, last, lookup_method, use_cache, max_retries, batch, calls, run>>

InitKeys ==
    /\ lookup_method = "auto"
    /\ use_cache = TRUE
    /\ max_retries = 0
    /\ files = NoFiles
    /\ now = Now0
    /\ last = NoCall
    /\ obs \in KeyPairs
    /\ batch = Idle
    /\ calls = NoCalls
    /\ run = NoRun

NextKeys == DeriveKeys

SpecKeys == InitKeys /\ [][NextKeys]_vars

\* The outcomes a lookup of a batch is given: every source fails, every
\* source answers, or only the first source fails.
BatchOutcomes(ip, retries) ==
    {o \in LookupOutcomes(ip, retries) :
        LET ok(name) == o[name] # <<>> /\ o[name][1].ok IN
        /\ ok("PythonWhoisResolver") = ok("SystemWhoisResolver")
        /\ ok("IPWhoisResolver") => ok("SystemWhoisResolver")}

\* what the resolvers a method selects return or raise under outcomes
Behaviour(method, ip, retries, outcomes) ==
    LET resolvers == get_resolver_by_method(method).val
    IN  [i \in DOMAIN resolvers |->
            lookup(resolvers[i], ip, outcomes[resolvers[i]], retries)]

\* One outcome for each distinct behaviour of the resolvers the method
\* selects: the resolvers it does not select are never called, and a
\* resolver that rejects the identity makes no attempt.
RelevantOutcomes(method, ip, retries) ==
    LET all == LookupOutcomes(ip, retries)
        behaviours == {Behaviour(method, ip, retries, o) : o \in all}
    IN  {CHOOSE o \in all : Behaviour(method, ip, retries, o) = b : b \in behaviours}

\* RelevantOutcomes, tabulated
OutcomeTable ==
    [method \in Methods |-> [ip \in LookupStrings |->
        [retries \in -1..MaxRetries |-> RelevantOutcomes(method, ip, retries)]]]

\* a call of WhoisEngine.lookup_ip(ip)
LookupIp(ip, outcomes) ==
    /\ batch.pc = "idle"
    /\ obs' = [kind |-> "lookup", ip |-> ip, at |-> now, pre |-> files,
               did |-> lookup_ip(files, now, lookup_method, use_cache, max_retries,
                                 ip, outcomes)]
    /\ files' = obs'.did.files
    /\ UNCHANGED <<now, last, lookup_method, use_cache, max_retries, batch, calls, run>>

\* One engine, in any configuration, serving single lookups; the cache
\* directory is also written through CacheManager.set.
InitLookup ==
    /\ lookup_method \in Methods
    /\ use_cache \in BOOLEAN
    /\ max_retries \in 0..MaxRetries
    /\ files \in PlantedFiles(lookup_method, PlantedEntries \cup {Garbage})
    /\ now = Now0
    /\ last = NoCall
    /\ obs = NoLookup
    /\ batch = Idle
    /\ calls = NoCalls
    /\ run = NoRun

NextLookup ==
    \/ \E ip \in {Ip4, BadIp} :
          \E outcomes \in OutcomeTable[lookup_method][ip][max_retries] : LookupIp(ip, outcomes)
    \/ \E result \in {EmptyDict, RecordOf(Ip4)} : CacheSet(Ip4, lookup_method, result)

SpecLookup == InitLookup /\ [][NextLookup]_vars

\* The engine as its constructor allows it: max_retries is any integer, a
\* negative one included.
InitRetries ==
    /\ lookup_method \in Methods
    /\ use_cache \in BOOLEAN
    /\ max_retries \in -1..MaxRetries
    /\ files \in PlantedFiles(lookup_method, PlantedEntries \cup {Garbage})
    /\ now = Now0
    /\ last = NoCall
    /\ obs = NoLookup
    /\ batch = Idle
    /\ calls = NoCalls
    /\ run = NoRun

SpecRetries == InitRetries /\ [][NextLookup]_vars

\* a file of the directory above the cache directory
OutsideFile(method) ==
    path_join(cache_dir, <<".", ".", "/", "x", "_", method, ".json">>)

\* One engine, given any string by its caller; beside the cache directory
\* there may lie a file that is no cache entry.
InitPaths ==
    /\ lookup_method \in Methods
    /\ use_cache \in BOOLEAN
    /\ max_retries = 0
    /\ files \in {inside @@ outside :
                     inside \in PlantedFiles(lookup_method, PlantedEntries),
                     outside \in {NoFiles,
                                  OutsideFile(lookup_method)
                                      :> EntryText(Num(Now0), RecordOf(Ip6))}}
    /\ now = Now0
    /\ last = NoCall
    /\ obs = NoLookup
    /\ batch = Idle
    /\ calls = NoCalls
    /\ run = NoRun

NextPaths ==
    \E ip \in LookupStrings :
        \E outcomes \in OutcomeTable[lookup_method][ip][max_retries] : LookupIp(ip, outcomes)

SpecPaths == InitPaths /\ [][NextPaths]_vars

\* the loop body as it would be if an error ended the batch
collect_abort(b, i, did) ==
    LET ip == b.valid_ips[i] IN
    IF did.kind = "return"
    THEN [b EXCEPT !.done = @ \cup {i}, !.running = @ \ {i},
                   !.results = Append(@, did.val),
                   !.log = @ @@ (i :> [kind |-> "return", ip |-> did.ip, val |-> did.val])]
    ELSE [b EXCEPT !.done = DOMAIN b.valid_ips, !.running = {},
                   !.errors = Append(@, Tuple(<<Str(ip), Str(did.msg)>>)),
                   !.log = @ @@ (i :> [kind |-> "raise", ip |-> did.ip, msg |-> did.msg])]

\* process_ips, the body of either loop for the identity at index i: the
\* result is appended, or the error is caught and recorded with the identity
collect(b, i, did) ==
    LET ip == b.valid_ips[i] IN
    IF did.kind = "return"
    THEN [b EXCEPT !.done = @ \cup {i}, !.running = @ \ {i},
                   !.results = Append(@, did.val),
                   !.log = @ @@ (i :> [kind |-> "return", ip |-> did.ip, val |-> did.val])]
    ELSE [b EXCEPT !.done = @ \cup {i}, !.running = @ \ {i},
                   !.errors = Append(@, Tuple(<<Str(ip), Str(did.msg)>>)),
                   !.log = @ @@ (i :> [kind |-> "raise", ip |-> did.ip, msg |-> did.msg])]

\* process_ips(ips, parallel, max_workers): the identities are filtered;
\* with none left it returns at once
ProcessIps(ips, parallel, max_workers) ==
    LET valid_ips == filter_valid_ips(ips)
        started == [pc |-> "running", ips |-> ips, valid_ips |-> valid_ips,
                    parallel |-> parallel /\ Len(valid_ips) > 1,
                    max_workers |-> max_workers, running |-> {},
                    done |-> {}, results |-> <<>>, errors |-> <<>>,
                    log |-> <<>>, ret |-> <<>>]
    IN  /\ batch.pc = "idle"
        /\ batch' = IF valid_ips = <<>> THEN [started EXCEPT !.pc = "returned"]
                    ELSE started
        /\ UNCHANGED <<files, now, last, lookup_method, use_cache, max_retries, obs, calls, run>>

\* the lookup of the identity at index i ends and its outcome is collected
Collect(i, did) ==
    /\ files' = did.files
    /\ batch' = collect(batch, i, did)
    /\ UNCHANGED <<now, last, lookup_method, use_cache, max_retries, obs, calls, run>>

\* lookup_ip is called for the identity at index i
BatchLookup(i, outcomes) ==
    Collect(i, lookup_ip(files, now, lookup_method, use_cache, max_retries,
                         batch.valid_ips[i], outcomes))

\* the sequential loop as it would be if it took the identities in any order
SequentialLookupAnyOrder ==
    /\ batch.pc = "running"
    /\ ~batch.parallel
    /\ \E i \in DOMAIN batch.valid_ips \ batch.done :
          \E outcomes \in BatchOutcomes(batch.valid_ips[i], max_retries) :
              BatchLookup(i, outcomes)

\* sequential mode: the identities are looked up one by one in input order
SequentialLookup ==
    /\ batch.pc = "running"
    /\ ~batch.parallel
    /\ Cardinality(batch.done) < Len(batch.valid_ips)
    /\ LET i == Cardinality(batch.done) + 1 IN
       \E outcomes \in BatchOutcomes(batch.valid_ips[i], max_retries) :
           BatchLookup(i, outcomes)

\* the pool as it would be if every submitted lookup got a thread at once
ParallelStartUnbounded ==
    /\ batch.pc = "running"
    /\ batch.parallel
    /\ batch.done \cup batch.running # DOMAIN batch.valid_ips
    /\ batch' = [batch EXCEPT !.running =
                      @ \cup {CHOOSE i \in DOMAIN batch.valid_ips \ (batch.done \cup @) :
                                 \A j \in DOMAIN batch.valid_ips \ (batch.done \cup @) :
                                     i <= j}]
    /\ UNCHANGED <<files, now, last, lookup_method, use_cache, max_retries, obs, calls, run>>

\* parallel mode: a thread of the pool, of which there are max_workers,
\* takes the next submitted lookup
ParallelStart ==
    /\ batch.pc = "running"
    /\ batch.parallel
    /\ batch.done \cup batch.running # DOMAIN batch.valid_ips
    /\ Cardinality(batch.running) < batch.max_workers
    /\ batch' = [batch EXCEPT !.running =
                      @ \cup {CHOOSE i \in DOMAIN batch.valid_ips \ (batch.done \cup @) :
                                 \A j \in DOMAIN batch.valid_ips \ (batch.done \cup @) :
                                     i <= j}]
    /\ UNCHANGED <<files, now, last, lookup_method, use_cache, max_retries, obs, calls, run>>

\* parallel mode: the lookups in progress complete in any order
ParallelLookup ==
    /\ batch.pc = "running"
    /\ batch.parallel
    /\ \E i \in batch.running :
          \E outcomes \in BatchOutcomes(batch.valid_ips[i], max_retries) :
              BatchLookup(i, outcomes)

\* process_ips returns the list of results
ProcessReturn ==
    /\ batch.pc = "running"
    /\ batch.done = DOMAIN batch.valid_ips
    /\ batch' = [batch EXCEPT !.pc = "returned", !.ret = batch.results]
    /\ UNCHANGED <<files, now, last, lookup_method, use_cache, max_retries, obs, calls, run>>

RECURSIVE SeqsUpTo(_, _)
\* the sequences over S of length at most n
SeqsUpTo(S, n) ==
    IF n = 0 THEN {<<>>}
    ELSE SeqsUpTo(S, n - 1) \cup {Append(q, x) : q \in [1..(n - 1) -> S], x \in S}

\* One engine processing one batch.
InitBatch ==
    /\ lookup_method \in {"auto", "system"}
    /\ use_cache \in BOOLEAN
    /\ max_retries = 0
    /\ files = NoFiles
    /\ now = Now0
    /\ last = NoCall
    /\ obs = NoLookup
    /\ batch = Idle
    /\ calls = NoCalls
    /\ run = NoRun

NextBatch ==
    \/ \E ips \in SeqsUpTo(Identities, MaxBatch), parallel \in BOOLEAN,
             max_workers \in 1..MaxWorkers :
          ProcessIps(ips, parallel, max_workers)
    \/ SequentialLookup
    \/ ParallelStart
    \/ ParallelLookup
    \/ ProcessReturn

SpecBatch == InitBatch /\ [][NextBatch]_vars

(***************************************************************************)
(* whois_tool/cli.py                                                       *)
(***************************************************************************)
\* main, after process_ips has returned results: the exit code, given
\* whether an output file was asked for and whether writing it worked
main_return(ips, results, output, written) ==
    IF ips = <<>> THEN 1
    ELSE IF results = <<>> THEN 0
    ELSE IF output /\ ~written THEN 1
    ELSE 0

\* main reports what process_ips returned and returns its exit code
MainExit(output, written) ==
    /\ batch.pc = "returned"
    /\ batch' = [pc |-> "exited",
                 exit_code |-> main_return(batch.ips, batch.ret, output, written)]
                @@ batch
    /\ UNCHANGED <<files, now, last, lookup_method, use_cache, max_retries, obs, calls, run>>

\* One run of the command line tool.
NextMain ==
    \/ \E ips \in SeqsUpTo(Identities, MaxBatch), parallel \in BOOLEAN,
             max_workers \in 1..MaxWorkers :
          ProcessIps(ips, parallel, max_workers)
    \/ SequentialLookup
    \/ ParallelStart
    \/ ParallelLookup
    \/ ProcessReturn
    \/ \E output \in BOOLEAN, written \in BOOLEAN : MainExit(output, written)

SpecMain == InitBatch /\ [][NextMain]_vars

(***************************************************************************)
(* merge_whois_results on lists of records                                 *)
(***************************************************************************)
\* the values a field of a record is given: None, '', and two names
FieldValues == {None, Str(<<>>), Str(<<"A">>), Str(<<"B">>)}
\* the labels the records carry in source
SourceLabels == {<<"IPWhoisResolver">>, <<"SystemWhoisResolver">>}

\* the record of a resolver: its label in source and its answer in raw
LabelledRecord(label, fields) ==
    Dict(fields @@ ("source" :> Str(label)) @@ ("raw" :> Dict("answer of" :> Str(label))))

\* the records merged: with the field or without it, with source and raw
\* or without them
MergeRecords ==
    LET fields == {[k \in {} |-> None]} \cup {("organization" :> v) : v \in FieldValues}
    IN  {Dict(f) : f \in fields}
            \cup {LabelledRecord(label, f) : label \in SourceLabels, f \in fields}

\* the call as it would be if the first record itself were filled
merge_call_in_place(results) ==
    [ret |-> merge_whois_results(results),
     args |-> IF results = <<>> THEN results
              ELSE [results EXCEPT ![1] = merge_whois_results(results)]]

\* the call merge_whois_results(results): what it returns and the list its
\* caller holds afterwards; merged is results[0].copy(), so the assignments
\* to merged reach no record of the list
merge_call(results) ==
    [ret |-> merge_whois_results(results), args |-> results]

\* merge_whois_results is applied to the list
Merge ==
    /\ obs.kind = "records"
    /\ obs' = [kind |-> "merged", given |-> obs.results,
               results |-> merge_call(obs.results).args,
               merged |-> merge_call(obs.results).ret]
    /\ UNCHANGED <<files, now, last, lookup_method, use_cache, max_retries, batch, calls, run>>

InitMerge ==
    /\ lookup_method = "auto"
    /\ use_cache = TRUE
    /\ max_retries = 0
    /\ files = NoFiles
    /\ now = Now0
    /\ last = NoCall
    /\ obs \in {[kind |-> "records", results |-> results] :
                    results \in SeqsUpTo(MergeRecords, MaxMerge)}
    /\ batch = Idle
    /\ calls = NoCalls
    /\ run = NoRun

NextMerge == Merge

SpecMerge == InitMerge /\ [][NextMerge]_vars

(***************************************************************************)
(* normalize_whois_result on raw results that name a network              *)
(***************************************************************************)
\* the ways a raw result names its network: not at all, as a string (the
\* system resolver), or as a mapping (RDAP) with a cidr, an address pair,
\* both, half a pair or neither
NetworkShapes ==
    LET cidr == "cidr" :> Str(<<"10.0.0.0/8">>)
        start == "start_address" :> Str(<<"10.0.0.0">>)
        end == "end_address" :> Str(<<"10.255.255.255">>)
        none == [k \in {} |-> None]
    IN  {none, "network" :> Str(<<"10.0.0.0", " - ", "10.255.255.255">>)}
            \cup {"network" :> Dict(d) :
                      d \in {none, cidr, start @@ end, cidr @@ start @@ end, start}}

\* the raw results normalized: an identity, a network in one of the shapes,
\* with a flat cidr or without, with an organization or without
NetworkRaws ==
    {Dict(("ip" :> Str(ip)) @@ net @@ flat @@ org) :
         ip \in ValidIps, net \in NetworkShapes,
         flat \in {[k \in {} |-> None], "cidr" :> Str(<<"192.0.2.0/24">>)},
         org \in {[k \in {} |-> None], "organization" :> Str(<<"ACME">>)}}

\* normalize_whois_result is applied to the raw result
Normalize ==
    /\ obs.kind = "raw"
    /\ obs' = [kind |-> "normalized", raw |-> obs.raw, source |-> obs.source,
               record |-> normalize_whois_result(obs.raw, obs.source)]
    /\ UNCHANGED <<files, now, last, lookup_method, use_cache, max_retries, batch, calls, run>>

InitNormalize ==
    /\ lookup_method = "auto"
    /\ use_cache = FALSE
    /\ max_retries = 0
    /\ files = NoFiles
    /\ now = Now0
    /\ last = NoCall
    /\ obs \in {[kind |-> "raw", raw |-> raw, source |-> <<source>>] :
                    raw \in NetworkRaws,
                    source \in {"IPWhoisResolver", "SystemWhoisResolver"}}
    /\ batch = Idle
    /\ calls = NoCalls
    /\ run = NoRun

NextNormalize == Normalize

SpecNormalize == InitNormalize /\ [][NextNormalize]_vars

(***************************************************************************)
(* whois_tool/resolvers/system_resolver.py                                 *)
(***************************************************************************)
\* the whois command prints at most this many lines
MaxLines == 3

\* A line of whois output: what stands before the colon, in lower case as
\* re.IGNORECASE compares it, and the bytes after it.  A comment line has the
\* label "%", an empty line the label "".
Line(label, value) == [label |-> label, value |-> value]

\* the table of patterns: for each field the labels its alternatives match
patterns ==
    [key \in {"organization", "country", "asn", "network", "registered"} |->
        CASE key = "organization" ->
                 <<{"organization", "org name", "organization name"}, {"descr", "owner"}>>
          [] key = "country" -> <<{"country", "country code"}, {"country"}>>
          [] key = "asn" -> <<{"originas", "origin as", "asnumber", "asn"}, {"origin"}>>
          [] key = "network" -> <<{"cidr", "netrange", "network"}, {"inetnum"}>>
          [] key = "registered" ->
                 <<{"regdate", "created", "registration date"}, {"created"}>>]

\* re.search(pattern, line, re.IGNORECASE) for the n-th alternative of key:
\* group 1 when it matches; 'origin:\s*AS(\d+)$' takes the digits after AS
search(key, n, line) ==
    IF line.label \notin patterns[key][n] THEN [matched |-> FALSE]
    ELSE IF key = "asn" /\ n = 2
    THEN IF Len(line.value) = 2 /\ line.value[1] = "AS"
         THEN [matched |-> TRUE, group |-> <<line.value[2]>>]
         ELSE [matched |-> FALSE]
    ELSE IF strip(line.value) = <<>> THEN [matched |-> FALSE]
    ELSE [matched |-> TRUE, group |-> strip(line.value)]

\* _parse_whois_output, the loops over the table for one line: for each
\* field the first alternative that matches sets result[key]
parse_line(result, line) ==
    LET first(key) == IF search(key, 1, line).matched THEN search(key, 1, line)
                      ELSE search(key, 2, line)
        hit == {key \in DOMAIN patterns : first(key).matched}
    IN  [key \in DOMAIN result \cup hit |->
            IF key \in hit THEN Str(first(key).group) ELSE result[key]]

RECURSIVE parse_lines(_, _)
\* _parse_whois_output, the loop over output.splitlines(): empty lines and
\* comments are skipped
parse_lines(result, lines) ==
    IF lines = <<>> THEN result
    ELSE IF Head(lines).label \in {"", "%", "#"}
         THEN parse_lines(result, Tail(lines))
         ELSE parse_lines(parse_line(result, Head(lines)), Tail(lines))

\* _parse_whois_output(output, ip)
_parse_whois_output(output, ip) ==
    Dict(parse_lines("ip" :> Str(ip), output))

\* subprocess.run(..., text=True) decodes what the process wrote: a byte
\* that is not UTF-8 raises UnicodeDecodeError, a ValueError
decodes(stdout) ==
    \A i \in DOMAIN stdout : \A j \in DOMAIN stdout[i].value : stdout[i].value[j] # "\\xe9"

\* _execute_whois_command: the process ends within the timeout or is killed
_execute_whois_command(proc) ==
    IF ~proc.ended
    THEN [msg |-> <<"Timeout expired for whois command">>] @@ Raises("ValueError")
    ELSE IF ~decodes(proc.stdout)
    THEN [msg |-> <<"'utf-8' codec can't decode byte">>] @@ Raises("UnicodeDecodeError")
    ELSE Returns([output |-> proc.stdout, return_code |-> proc.returncode])

\* SystemWhoisResolver._perform_lookup(ip, timeout)
system_perform_lookup(ip, proc) ==
    LET ran == _execute_whois_command(proc) IN
    IF ran.kind = "raise" THEN ran
    ELSE IF ran.val.return_code # 0 /\ ran.val.output = <<>>
    THEN [msg |-> <<"whois command failed with code">>] @@ Raises("ValueError")
    ELSE IF ran.val.output = <<>>
    THEN [msg |-> <<"No output from whois command">>] @@ Raises("ValueError")
    ELSE Returns(Dict(_parse_whois_output(ran.val.output, ip).d
                      @@ ("raw_output" :> List(ran.val.output))))

\* the lines the whois command prints
WhoisLines ==
    {Line("descr", <<"A">>), Line("descr", <<"B", " ">>), Line("owner", <<"C">>),
     Line("country", <<"US">>), Line("origin", <<"AS", "15">>),
     Line("%", <<"descr", "X">>), Line("", <<>>), Line("descr", <<"caf", "\\xe9">>)}

\* what the whois process does: it is killed at the timeout, or ends with
\* an exit code after printing some lines
WhoisRuns ==
    {[ended |-> ended, stdout |-> stdout, returncode |-> returncode] :
         ended \in BOOLEAN, stdout \in SeqsUpTo(WhoisLines, MaxLines),
         returncode \in {0, 1}}

\* _perform_lookup is called
SystemPerformLookup ==
    /\ obs.kind = "whois"
    /\ obs' = [kind |-> "acquired", ip |-> obs.ip, proc |-> obs.proc,
               did |-> system_perform_lookup(obs.ip, obs.proc)]
    /\ UNCHANGED <<files, now, last, lookup_method, use_cache, max_retries, batch, calls, run>>

InitSystem ==
    /\ lookup_method = "system"
    /\ use_cache = FALSE
    /\ max_retries = 0
    /\ files = NoFiles
    /\ now = Now0
    /\ last = NoCall
    /\ obs \in {[kind |-> "whois", ip |-> Ip4, proc |-> proc] : proc \in WhoisRuns}
    /\ batch = Idle
    /\ calls = NoCalls
    /\ run = NoRun

NextSystem == SystemPerformLookup

SpecSystem == InitSystem /\ [][NextSystem]_vars

(***************************************************************************)
(* One sequential run of the engine, attempt by attempt                    *)
(***************************************************************************)
\* the seconds slept after the first failed attempt (base.py: retry_count * 2)
BaseDelay == 2
\* the --timeout option when it is not given
DefaultTimeout == 30
\* the --rate-limit option when it is not given
DefaultRateLimit == 1
\* the rate limits of the runs: the default, and one that is longer than
\* the first backoff and the attempt before it
RateLimits == {DefaultRateLimit, BaseDelay + DefaultRateLimit + DefaultRateLimit}

\* BaseResolver.__init__(rate_limit)
new_resolver(name, rate_limit) ==
    [name |-> name, rate_limit |-> rate_limit, last_request_time |-> 0]

\* the rate limiter as it would be if it never slept
rate_limit_sleep_never(last_request_time, rate_limit, current_time) ==
    0

\* _apply_rate_limit: the seconds it sleeps when called at current_time
rate_limit_sleep(last_request_time, rate_limit, current_time) ==
    LET elapsed == current_time - last_request_time
    IN  IF elapsed < rate_limit THEN rate_limit - elapsed ELSE 0

\* the retry test as it would be if it allowed one attempt more
retry_allowed_once_more(retry_count, retries) ==
    retry_count <= retries + 1

\* BaseResolver.lookup: another attempt is made while retry_count <= max_retries
retry_allowed(retry_count, retries) ==
    retry_count <= retries

\* the backoff as it would be if lookup retried at once
backoff_sleep_none(retry_count) ==
    0

\* BaseResolver.lookup: the seconds slept before the retry after the
\* retry_count-th failed attempt
backoff_sleep(retry_count) ==
    retry_count * BaseDelay

\* _perform_lookup of IPWhoisResolver and of PythonWhoisResolver calls
\* socket.setdefaulttimeout(timeout) when it is given a timeout;
\* PythonWhoisResolver resolves the host name first and does not reach the
\* call when that fails; SystemWhoisResolver passes the timeout to the
\* subprocess it runs
socket_timeout_after(name, timeout, outcome, sock) ==
    IF timeout = None THEN sock
    ELSE CASE name = "IPWhoisResolver" -> timeout
           [] name = "PythonWhoisResolver" -> IF outcome.ok THEN timeout ELSE sock
           [] OTHER -> sock

\* the identities a run looks up
RunIps == {<<Ip4>>, <<Ip4, Ip6>>}

\* the resolver whose lookup is in progress, and the identity it looks up
Current == run.resolvers[run.r]
RunIp == run.ips[run.i]

\* resolver.lookup(ip, timeout, max_retries) is called on the r-th resolver
begin_lookup(rn, r, t) ==
    [rn EXCEPT !.pc = "limit", !.r = r, !.retry_count = 0,
               !.tries = <<>>, !.starts = <<>>,
               !.lookups = Append(@, [name |-> rn.resolvers[r].name,
                                      began |-> t, ended |-> <<>>])]

\* lookup_ip(ip) is called for the next identity: the resolvers of the
\* method are built and the first one's lookup is called
LookupIpStart ==
    /\ run.pc = "start"
    /\ LET names == get_resolver_by_method(lookup_method).val
           built == [run EXCEPT !.resolvers =
                                   [k \in DOMAIN names |->
                                       new_resolver(names[k], run.rate_limit)],
                                !.acc = Collected0,
                                !.lookups = <<>>,
                                !.ret = <<>>, !.res = None,
                                !.last_error = <<>>, !.gap = <<>>]
       IN  run' = begin_lookup(built, 1, now)
    /\ UNCHANGED <<files, now, last, lookup_method, use_cache, max_retries, obs, batch, calls>>

\* _apply_rate_limit
ApplyRateLimit ==
    /\ run.pc = "limit"
    /\ now' = now + rate_limit_sleep(Current.last_request_time,
                                     Current.rate_limit, now)
    /\ run' = [run EXCEPT !.pc = "attempt",
                          !.resolvers[run.r].last_request_time = now']
    /\ UNCHANGED <<files, last, lookup_method, use_cache, max_retries, obs, batch, calls>>

\* _perform_lookup(ip, timeout): the request is sent when it is called and
\* answered or failed run.duration seconds later
PerformLookup(outcome) ==
    /\ run.pc = "attempt"
    /\ now' = now + run.duration
    /\ run' = [run EXCEPT
                 !.pc = IF outcome.ok THEN "resolved" ELSE "failed",
                 !.tries = Append(@, outcome),
                 !.starts = Append(@, now),
                 !.sent = [@ EXCEPT ![Current.name] = <<now>>],
                 !.gap = IF run.sent[Current.name] = <<>> THEN <<>>
                         ELSE <<now - run.sent[Current.name][1]>>,
                 !.sock = socket_timeout_after(Current.name, run.timeout, outcome, @),
                 !.res = IF outcome.ok
                         THEN [kind |-> "return",
                               val |-> normalize_whois_result(
                                           IF "ip" \in DOMAIN outcome.raw.d
                                           THEN outcome.raw
                                           ELSE Dict(outcome.raw.d @@ ("ip" :> Str(RunIp))),
                                           <<Current.name>>),
                               tries |-> Len(run.tries) + 1]
                         ELSE @,
                 !.last_error = IF outcome.ok THEN @ ELSE outcome.msg]
    /\ UNCHANGED <<files, last, lookup_method, use_cache, max_retries, obs, batch, calls>>

\* BaseResolver.lookup, the except clause: the attempt is counted; while
\* retry_count <= max_retries lookup sleeps and tries again, after that it
\* raises
HandleFailure ==
    /\ run.pc = "failed"
    /\ IF retry_allowed(run.retry_count + 1, max_retries)
       THEN /\ now' = now + backoff_sleep(run.retry_count + 1)
            /\ run' = [run EXCEPT !.pc = "limit", !.retry_count = @ + 1]
       ELSE /\ now' = now
            /\ run' = [run EXCEPT !.pc = "resolved", !.retry_count = @ + 1,
                                  !.res = [kind |-> "raise", exc |-> "ValueError",
                                           msg |-> <<"Lookup failed: ">> \o run.last_error,
                                           tries |-> Len(run.tries)]]
    /\ UNCHANGED <<files, last, lookup_method, use_cache, max_retries, obs, batch, calls>>

\* lookup_ip, the loop over the resolvers once a resolver's lookup has
\* returned or raised: the next resolver's lookup is called, or lookup_ip
\* returns or raises and process_ips goes on to the next identity
NextResolver ==
    /\ run.pc = "resolved"
    /\ LET acc == loop_body(run.acc, Current.name, run.res, lookup_method)
           ended == [run EXCEPT !.acc = acc,
                                !.lookups[Len(run.lookups)].ended = <<now>>]
       IN  IF ~acc.stopped /\ run.r < Len(run.resolvers)
           THEN run' = begin_lookup(ended, run.r + 1, now)
           ELSE run' = [ended EXCEPT
                          !.pc = IF run.i < Len(run.ips) THEN "start" ELSE "finished",
                          !.i = IF run.i < Len(run.ips) THEN @ + 1 ELSE @,
                          !.ret = <<after_loop(files, now, lookup_method, FALSE, RunIp,
                                               [k \in DOMAIN run.resolvers |->
                                                   run.resolvers[k].name],
                                               acc)>>]
    /\ UNCHANGED <<files, now, last, lookup_method, use_cache, max_retries, obs, batch, calls>>

\* An engine without a cache looks up the identities of a run one after
\* another; the clock is past the epoch by more than any rate limit.
InitRun ==
    /\ lookup_method \in {"auto", "pythonwhois"}
    /\ use_cache = FALSE
    /\ max_retries \in 0..MaxRetries
    /\ files = NoFiles
    /\ now = Now0 + BaseDelay + DefaultRateLimit + DefaultRateLimit
    /\ last = NoCall
    /\ obs = NoLookup
    /\ batch = Idle
    /\ calls = NoCalls
    /\ \E ips \in RunIps, rate_limit \in RateLimits,
          timeout \in {None, Num(DefaultTimeout)}, slow \in BOOLEAN :
          run = [pc |-> "start", ips |-> ips, i |-> 1,
                 rate_limit |-> rate_limit, timeout |-> timeout,
                 duration |-> IF slow THEN 1 ELSE 0,
                 resolvers |-> <<>>, r |-> 0, retry_count |-> 0,
                 last_error |-> <<>>, res |-> None, acc |-> Collected0,
                 ret |-> <<>>, sock |-> None,
                 tries |-> <<>>, starts |-> <<>>, lookups |-> <<>>,
                 sent |-> [name \in {"IPWhoisResolver", "PythonWhoisResolver",
                                     "SystemWhoisResolver"} |-> <<>>],
                 gap |-> <<>>]

NextRun ==
    \/ LookupIpStart
    \/ ApplyRateLimit
    \/ /\ run.pc = "attempt"
       /\ \E outcome \in AcqOutcomes(Current.name, RunIp) : PerformLookup(outcome)
    \/ HandleFailure
    \/ NextResolver

SpecRun == InitRun /\ [][NextRun]_vars

(***************************************************************************)
(* The resolver instances of the lookups of a thread pool                  *)
(***************************************************************************)
\* get_resolver_by_method as it would be if the engine built its resolvers
\* once and handed the same instances to every lookup
build_resolvers_once(instances, names, rate_limit) ==
    IF Len(instances) >= Len(names)
    THEN [instances |-> instances, ids |-> [k \in DOMAIN names |-> k]]
    ELSE [instances |-> instances \o [k \in DOMAIN names |->
                                          new_resolver(names[k], rate_limit)],
          ids |-> [k \in DOMAIN names |-> Len(instances) + k]]

\* get_resolver_by_method(method, rate_limit=...) in lookup_ip: every class
\* of the method is instantiated; instances holds every instance built so
\* far, ids are the places of the new ones in it
build_resolvers(instances, names, rate_limit) ==
    [instances |-> instances \o [k \in DOMAIN names |->
                                     new_resolver(names[k], rate_limit)],
     ids |-> [k \in DOMAIN names |-> Len(instances) + k]]

\* a pool thread between two calls
IdleWorker ==
    [pc |-> "idle", call |-> 0, resolvers |-> <<>>, r |-> 0, retry_count |-> 0, seen |-> 0]

\* the instance the worker's lookup is at
Instance(w) == run.workers[w].resolvers[run.workers[w].r]

\* the worker's lookup has touched the state of the instance it is at
used_by(rn, w) ==
    [rn.users EXCEPT ![rn.workers[w].resolvers[rn.workers[w].r]] =
        @ \cup {[call |-> rn.workers[w].call, worker |-> w]}]

\* a pool thread takes the next lookup_ip call: the resolvers are built and
\* lookup is called on the first
WorkerLookupIpStart(w) ==
    /\ run.pc = "pool"
    /\ run.workers[w].pc = "idle"
    /\ run.next <= run.total
    /\ LET built == build_resolvers(run.instances,
                                    get_resolver_by_method(lookup_method).val,
                                    run.rate_limit)
       IN  run' = [run EXCEPT
                     !.instances = built.instances,
                     !.users = @ \o [k \in 1..(Len(built.instances) - Len(run.users)) |-> {}],
                     !.next = @ + 1,
                     !.workers[w] = [pc |-> "limit", call |-> run.next,
                                     resolvers |-> built.ids, r |-> 1,
                                     retry_count |-> 0, seen |-> 0]]
    /\ UNCHANGED <<files, now, last, lookup_method, use_cache, max_retries, obs, batch, calls>>

\* _apply_rate_limit, its first half: last_request_time is read and the
\* thread sleeps for what is left of rate_limit
WorkerRateLimitRead(w) ==
    /\ run.pc = "pool"
    /\ run.workers[w].pc = "limit"
    /\ run' = [run EXCEPT !.users = used_by(run, w),
                          !.workers[w].pc = "stamp",
                          !.workers[w].seen = run.instances[Instance(w)].last_request_time]
    /\ UNCHANGED <<files, now, last, lookup_method, use_cache, max_retries, obs, batch, calls>>

\* _apply_rate_limit, its last line: last_request_time is written (the
\* clock stands still here: what is followed is who reads and writes it)
WorkerRateLimitStamp(w) ==
    /\ run.pc = "pool"
    /\ run.workers[w].pc = "stamp"
    /\ run' = [run EXCEPT !.users = used_by(run, w),
                          !.instances[Instance(w)].last_request_time = now,
                          !.workers[w].pc = "attempt",
                          !.workers[w].seen = 0]
    /\ UNCHANGED <<files, now, last, lookup_method, use_cache, max_retries, obs, batch, calls>>

\* _perform_lookup answers or fails: a failure is retried while
\* retry_count <= max_retries; after the resolver's lookup the next
\* resolver's is called, and after the last lookup_ip is over
WorkerPerformLookup(w, answers) ==
    /\ run.pc = "pool"
    /\ run.workers[w].pc = "attempt"
    /\ run' = IF ~answers /\ retry_allowed(run.workers[w].retry_count + 1, max_retries)
              THEN [run EXCEPT !.workers[w].pc = "limit",
                               !.workers[w].retry_count = @ + 1]
              ELSE IF run.workers[w].r < Len(run.workers[w].resolvers)
              THEN [run EXCEPT !.workers[w].pc = "limit",
                               !.workers[w].r = @ + 1,
                               !.workers[w].retry_count = 0]
              ELSE [run EXCEPT !.workers[w] = IdleWorker]
    /\ UNCHANGED <<files, now, last, lookup_method, use_cache, max_retries, obs, batch, calls>>

\* the threads of the pool, and the identities whose lookups they are given
PoolThreads == {"t1", "t2"}
PoolIps == <<Ip4, Ip6, Ip4>>

\* One engine without cache; its lookup_ip calls for a list of identities
\* are handed to the threads of a pool.
InitPool ==
    /\ lookup_method \in {"auto", "system"}
    /\ use_cache = FALSE
    /\ max_retries \in 0..MaxRetries
    /\ files = NoFiles
    /\ now = Now0
    /\ last = NoCall
    /\ obs = NoLookup
    /\ batch = Idle
    /\ calls = NoCalls
    /\ run = [pc |-> "pool", rate_limit |-> DefaultRateLimit, total |-> Len(PoolIps),
              next |-> 1, instances |-> <<>>, users |-> <<>>,
              workers |-> [w \in PoolThreads |-> IdleWorker]]

NextPool ==
    \/ \E w \in PoolThreads : WorkerLookupIpStart(w)
    \/ \E w \in PoolThreads : WorkerRateLimitRead(w)
    \/ \E w \in PoolThreads : WorkerRateLimitStamp(w)
    \/ \E w \in PoolThreads, answers \in BOOLEAN : WorkerPerformLookup(w, answers)

SpecPool == InitPool /\ [][NextPool]_vars

(***************************************************************************)
(* Cache entries, as the properties speak of them                          *)
(***************************************************************************)
\* the text is a JSON object that holds a timestamp and a result
HoldsEntry(text) ==
    /\ text.c = "json"
    /\ text.v.j = "object"
    /\ {"timestamp", "result"} \subseteq DOMAIN text.v.o

\* the text is an entry whose timestamp is a number
TimedEntry(text) == HoldsEntry(text) /\ text.v.o["timestamp"].j = "number"

Age(text, t) == t - text.v.o["timestamp"].n
StoredResult(text) == FromJson(text.v.o["result"])

(***************************************************************************)
(* Properties of process_ips                                               *)
(***************************************************************************)
\* the indices of the valid identities whose lookup returned
Succeeded == {i \in DOMAIN batch.log : batch.log[i].kind = "return"}

\* C1: process_ips looks up every valid identity and returns the record of
\* each one whose lookup succeeds, whatever the lookups of the others do,
\* in sequential and in parallel mode.
C1_BatchIsolation ==
    batch.pc = "returned" =>
        /\ batch.valid_ips = filter_valid_ips(batch.ips)
        /\ DOMAIN batch.log = DOMAIN batch.valid_ips
        /\ \A i \in Succeeded : \E j \in DOMAIN batch.ret : batch.ret[j] = batch.log[i].val
        /\ Len(batch.ret) = Cardinality(Succeeded)

\* a parallel batch of three returned the records of the first and the
\* third identity although the lookup of the second raised
C1_Witness ==
    /\ batch.pc = "returned"
    /\ batch.parallel
    /\ Len(batch.valid_ips) = 3
    /\ batch.log[1].kind = "return"
    /\ batch.log[2].kind = "raise"
    /\ batch.log[3].kind = "return"
    /\ Len(batch.ret) = 2

\* the (identity, error) pairs found in a value returned by process_ips
ReturnedFailures(ret) == SelectSeq(ret, LAMBDA x : x.t = "tuple")

\* C2: the value process_ips returns contains the accumulated
\* (identity, error) pairs, one for each identity whose lookup failed.
C2_ReturnsFailures ==
    batch.pc = "returned" => ReturnedFailures(batch.ret) = batch.errors

(***************************************************************************)
(* Properties of lookup_ip                                                 *)
(***************************************************************************)
\* sub occurs in s
Contains(s, sub) ==
    \E k \in 0..(Len(s) - Len(sub)) : SubSeq(s, k + 1, k + Len(sub)) = sub

\* the path of the entry the last lookup_ip call was about
ObsPath == _get_cache_path(obs.ip, lookup_method)

\* the last lookup_ip call found no usable record in the cache
Miss == ~use_cache \/ ~Truthy(get(obs.pre, obs.at, obs.ip, lookup_method))

\* the resolver lookups of the last lookup_ip call that returned a record
Winners ==
    SelectSeq(obs.did.tried, LAMBDA r : r.kind = "return" /\ r.val # None)

RecordFields == {"ip", "network", "asn", "organization", "country", "city", "registered"}

MethodResolver == get_resolver_by_method(lookup_method).val[1]

\* C4: with a specific method whose resolver's lookup fails, lookup_ip
\* raises an error that names that resolver, calls no other resolver and
\* does not write the cache.
C4_SinglePropagation ==
    (/\ obs.kind = "lookup"
     /\ lookup_method # "auto"
     /\ obs.did.tried # <<>>
     /\ obs.did.tried[1].kind = "raise") =>
        /\ obs.did.kind = "raise"
        /\ \E i \in DOMAIN obs.did.msg : obs.did.msg[i] = MethodResolver
        /\ obs.did.invoked = <<MethodResolver>>
        /\ ~obs.did.cache_set
        /\ obs.did.files = obs.pre

\* with caching on, the system resolver failed on a valid identity and
\* lookup_ip raised
C4_Witness ==
    /\ obs.kind = "lookup"
    /\ lookup_method = "system"
    /\ use_cache
    /\ obs.ip = Ip4
    /\ obs.did.tried # <<>>
    /\ obs.did.tried[1].kind = "raise"
    /\ obs.did.kind = "raise"

\* C5: when every resolver fails in auto mode, the message of the error
\* lookup_ip raises holds every collected failure reason.
C5_AllFailedMessage ==
    (/\ obs.kind = "lookup"
     /\ lookup_method = "auto"
     /\ Len(obs.did.tried) = 3
     /\ \A i \in 1..3 : obs.did.tried[i].kind = "raise") =>
        /\ obs.did.kind = "raise"
        /\ \A i \in 1..3 : Contains(obs.did.msg, obs.did.tried[i].msg)

\* C6: a malformed identity is rejected by lookup_ip with an
\* invalid-identity error before the cache is read and before any resolver
\* is called.
C6_RejectsMalformedFirst ==
    (obs.kind = "lookup" /\ ~ip_address_accepts(obs.ip)) =>
        /\ obs.did.kind = "raise"
        /\ Contains(obs.did.msg, <<"Invalid IP address: ">>)
        /\ ~obs.did.cache_read
        /\ obs.did.invoked = <<>>

\* the cache held a fresh entry for the identity of the last lookup_ip call
FreshEntry ==
    /\ ObsPath \in DOMAIN obs.pre
    /\ TimedEntry(obs.pre[ObsPath])
    /\ Age(obs.pre[ObsPath], obs.at) <= Ttl

\* the last lookup_ip call returned the cached record and did nothing else
ServedFromCache ==
    /\ obs.did.kind = "return"
    /\ obs.did.val = StoredResult(obs.pre[ObsPath])
    /\ obs.did.constructed = <<>>
    /\ obs.did.invoked = <<>>
    /\ ~obs.did.cache_set
    /\ obs.did.files = obs.pre

C8_RoundTrip ==
    [][(/\ last.op = "set"
        /\ last.ret
        /\ last'.op = "get"
        /\ last'.ip = last.ip
        /\ last'.method = last.method
        /\ last'.at - last.at <= Ttl)
       => last'.ret = last.result]_vars

\* a get returned the record a set had just stored, some time after the set
C8_Witness ==
    /\ last.op = "get"
    /\ last.follows_set
    /\ last.ret = RecordOf(Ip4)
    /\ LET text == last.pre[_get_cache_path(last.ip, last.method)]
       IN  Age(text, last.at) > 0

\* C9: get treats an entry older than ttl as absent and returns one whose
\* age is at most ttl; clean_expired deletes and counts the entries older
\* than ttl and keeps, unchanged, those whose age is at most ttl.
C9_Expiry ==
    /\ last.op = "get" =>
          LET path == _get_cache_path(last.ip, last.method) IN
          (path \in DOMAIN last.pre /\ TimedEntry(last.pre[path])) =>
              IF Age(last.pre[path], last.at) > Ttl
              THEN last.ret = None
              ELSE last.ret = StoredResult(last.pre[path])
    /\ last.op = "clean" =>
          /\ \A path \in DOMAIN last.pre :
                TimedEntry(last.pre[path]) =>
                    IF Age(last.pre[path], last.at) > Ttl
                    THEN path \notin DOMAIN files
                    ELSE path \in DOMAIN files /\ files[path] = last.pre[path]
          /\ last.ret = Cardinality(DOMAIN last.pre \ DOMAIN files)

\* one clean_expired deleted a stale entry and kept one aged exactly ttl
C9_Witness ==
    /\ last.op = "clean"
    /\ last.ret >= 1
    /\ \E path \in DOMAIN last.pre :
          /\ TimedEntry(last.pre[path])
          /\ Age(last.pre[path], last.at) > Ttl
          /\ path \notin DOMAIN files
    /\ \E path \in DOMAIN files :
          /\ TimedEntry(files[path])
          /\ Age(files[path], last.at) = Ttl

\* C10: for a cache file whose text is not JSON, or is JSON but not an
\* object holding timestamp and result, get returns absent and
\* clean_expired deletes the file and counts it.
C10_CorruptionTolerance ==
    /\ last.op = "get" =>
          LET path == _get_cache_path(last.ip, last.method) IN
          (path \in DOMAIN last.pre /\ ~HoldsEntry(last.pre[path])) => last.ret = None
    /\ last.op = "clean" =>
          /\ \A path \in DOMAIN last.pre :
                (endswith(path, ".json") /\ ~HoldsEntry(last.pre[path]))
                    => path \notin DOMAIN files
          /\ last.ret = Cardinality(DOMAIN last.pre \ DOMAIN files)

\* the last call was get and found at the entry's path a file that is
\* unreadable, unparseable or of the wrong shape
BadEntryRead ==
    /\ last.op = "get"
    /\ _get_cache_path(last.ip, last.method) \in DOMAIN last.pre
    /\ ~TimedEntry(last.pre[_get_cache_path(last.ip, last.method)])

\* C11: CacheManager.get never raises; with the file missing, unreadable,
\* unparseable or of the wrong shape it returns None.
C11_GetNeverRaises ==
    last.op = "get" =>
        /\ last.kind = "return"
        /\ (_get_cache_path(last.ip, last.method) \notin DOMAIN last.pre
               \/ BadEntryRead) => last.ret = None

\* a get met an unreadable file and returned None
C11_Witness ==
    /\ BadEntryRead
    /\ last.pre[_get_cache_path(last.ip, last.method)] = Unreadable
    /\ last.kind = "return"
    /\ last.ret = None

\* C12: set refuses an absent or empty record: it returns false and creates
\* or changes no cache file.
C12_RefusesEmpty ==
    (last.op = "set" /\ last.result \in {None, EmptyDict}) =>
        /\ last.ret = FALSE
        /\ files = last.pre

(***************************************************************************)
(* Properties of calls that run at the same time                           *)
(***************************************************************************)
\* no other thread has called set
OnlyWriter(w) == \A v \in Writers \ {w} : calls[v].pc = "idle"

\* w has called set and the call has not stored its record: it is in
\* progress, it failed or it was interrupted
Unstored(w) == calls[w].pc # "idle" /\ ~(calls[w].pc = "returned" /\ calls[w].ret)

\* C13: a set call that fails or is interrupted at any step, before, during
\* or after the writing of the temp file and before the rename, leaves the
\* entry stored before it unchanged and readable, and a failing set returns
\* false instead of raising.
C13_FailedSetKeepsEntry ==
    \A w \in Writers :
        (OnlyWriter(w) /\ Unstored(w)) =>
            /\ (EntryFile \in DOMAIN files) = (EntryFile \in DOMAIN calls[w].pre)
            /\ EntryFile \in DOMAIN files => files[EntryFile] = calls[w].pre[EntryFile]
            /\ get_call(files, now, RaceIp, lookup_method)
                   = get_call(calls[w].pre, now, RaceIp, lookup_method)
            /\ calls[w].exc \notin {"", "KeyboardInterrupt"} =>
                   (calls[w].kind = "return" /\ calls[w].ret = FALSE)

\* the rename failed after the temp file was written in full, and the
\* fresh entry stored before is still served
C13_Witness ==
    /\ OnlyWriter("w1")
    /\ calls["w1"].pc = "returned"
    /\ calls["w1"].exc = "OSError"
    /\ ~calls["w1"].ret
    /\ TempFile \in DOMAIN files
    /\ files[TempFile] = json_dump(set_data(calls["w1"])).text
    /\ EntryFile \in DOMAIN calls["w1"].pre
    /\ get(files, now, RaceIp, lookup_method) = RecordOf(RaceIp)

\* the complete texts of the set calls made so far
WriterTexts ==
    {json_dump(set_data(calls[w])).text :
        w \in {v \in Writers : /\ calls[v].pc # "idle"
                               /\ calls[v].result # None
                               /\ json_dump(set_data(calls[v])).ok}}

\* C14: under any interleaving of two set calls for the same key, the entry
\* file always holds the complete valid data of one writer (of one of the
\* two calls, or of the call that stored the entry before them), never a
\* mix and never a truncated file.
C14_EntryAlwaysWhole ==
    EntryFile \in DOMAIN files =>
        files[EntryFile] \in PlantedEntries \cup WriterTexts

\* the thread that calls get has returned, and at most one thread has
\* called set
GetBesideOneSet ==
    /\ calls[Reader].pc = "returned"
    /\ \E w \in Writers : OnlyWriter(w)

\* the records of the set calls made so far
WriterResults ==
    {calls[w].result : w \in {v \in Writers : calls[v].pc # "idle" /\ calls[v].result # None}}

\* C15: a get that runs while one set runs on the same key never observes a
\* partial entry: it returns what it would have returned before the set (the
\* old record, or absent when no old entry was there to serve) or the new
\* record, and the text it reads always parses.
C15_GetSeesOldOrNew ==
    GetBesideOneSet =>
        /\ calls[Reader].kind = "return"
        /\ calls[Reader].exc = ""
        /\ EntryFile \in DOMAIN calls[Reader].pre => calls[Reader].snap.c = "json"
        /\ calls[Reader].ret \in
              {get(calls[Reader].pre, calls[Reader].at, RaceIp, lookup_method)}
                  \cup WriterResults
        /\ calls[Reader].ret = None =>
              get(calls[Reader].pre, calls[Reader].at, RaceIp, lookup_method) = None

\* get opened the entry while set had the temp file open, read it after the
\* rename, and returned the old record
C15_Witness ==
    /\ GetBesideOneSet
    /\ calls["w1"].pc = "returned"
    /\ calls["w1"].ret
    /\ calls["w1"].result = EmptyDict
    /\ calls[Reader].pre = calls["w1"].pre
    /\ calls[Reader].ret = RecordOf(RaceIp)
    /\ get(files, now, RaceIp, lookup_method) = EmptyDict

(***************************************************************************)
(* Properties of the cache key                                             *)
(***************************************************************************)
\* C16: the derivation of the cache key is injective: distinct pairs of an
\* identity validate_ip accepts and a method among auto, ipwhois,
\* pythonwhois and system never get the same cache path.
C16_KeyInjective ==
    obs.kind = "keys" =>
        (obs.path = obs.other_path =>
            (obs.ip = obs.other_ip /\ obs.method = obs.other_method))

(***************************************************************************)
(* Properties of merge_whois_results                                       *)
(***************************************************************************)
\* the value record r has for field k: None when it has none
FieldOf(r, k) == IF k \in DOMAIN r.d THEN r.d[k] ELSE None

\* the fields of the records merged, other than source and raw
MergedFields ==
    UNION {DOMAIN obs.results[i].d : i \in DOMAIN obs.results} \ {"source", "raw"}

\* the records that have a value for field k, and those after record i
\* that have a non-empty one
Having(k) == {i \in DOMAIN obs.results : FieldOf(obs.results[i], k) # None}
FillingAfter(k, i) ==
    {j \in DOMAIN obs.results : j > i /\ Truthy(FieldOf(obs.results[j], k))}
Earliest(S) == CHOOSE i \in S : \A j \in S : i <= j

\* C17: for every non-empty list of records and every field other than
\* source and raw, the merged record keeps the earliest value that is
\* present when it is not the empty string; a later value is taken only
\* where the value so far is absent, or is the empty string while the later
\* value is non-empty, and then it is the earliest such value.
C17_MergeFill ==
    (obs.kind = "merged" /\ obs.results # <<>>) =>
        \A k \in MergedFields :
            IF Having(k) = {}
            THEN FieldOf(obs.merged, k) = None
            ELSE IF FieldOf(obs.results[Earliest(Having(k))], k) # Str(<<>>)
            THEN FieldOf(obs.merged, k) = FieldOf(obs.results[Earliest(Having(k))], k)
            ELSE IF FillingAfter(k, Earliest(Having(k))) = {}
            THEN FieldOf(obs.merged, k) = Str(<<>>)
            ELSE FieldOf(obs.merged, k) =
                    FieldOf(obs.results[Earliest(FillingAfter(k, Earliest(Having(k))))], k)

\* three records of which the first has no value for the field, the second
\* the empty string and the third a name, which the merged record takes
C17_Witness ==
    /\ obs.kind = "merged"
    /\ Len(obs.results) = 3
    /\ "organization" \notin DOMAIN obs.results[1].d
    /\ FieldOf(obs.results[2], "organization") = Str(<<>>)
    /\ FieldOf(obs.results[3], "organization") = Str(<<"B">>)
    /\ FieldOf(obs.merged, "organization") = Str(<<"B">>)

RECURSIVE SourceLine(_, _)
\* the labels of the first n records, each followed by the next after ', '
SourceLine(results, n) ==
    IF n = 0 THEN <<>>
    ELSE IF n = 1 THEN FieldOf(results[1], "source").s
    ELSE SourceLine(results, n - 1) \o <<", ">> \o FieldOf(results[n], "source").s

\* every record merged carries a label in source
AllLabelled == \A i \in DOMAIN obs.results : "source" \in DOMAIN obs.results[i].d

\* C18: the source of a merged record is the source labels of all the input
\* records joined by ', ' in input order, one label for each record,
\* duplicates kept.
C18_MergedSource ==
    (obs.kind = "merged" /\ obs.results # <<>> /\ AllLabelled) =>
        /\ "source" \in DOMAIN obs.merged.d
        /\ obs.merged.d["source"] = Str(SourceLine(obs.results, Len(obs.results)))

\* three records, two of them of the same source, merged
C18_Witness ==
    /\ obs.kind = "merged"
    /\ Len(obs.results) = 3
    /\ AllLabelled
    /\ obs.results[1].d["source"] = obs.results[3].d["source"]
    /\ obs.results[1].d["source"] # obs.results[2].d["source"]
    /\ obs.merged.d["source"] =
           Str(<<"SystemWhoisResolver", ", ", "IPWhoisResolver", ", ", "SystemWhoisResolver">>)

(***************************************************************************)
(* Properties of the source of a record                                    *)
(***************************************************************************)
\* the i-th resolver called answered, and the value the returned record has
\* for field k was taken from its answer: no resolver before it had one
TakenFrom(k, i) ==
    /\ obs.did.tried[i].kind = "return"
    /\ obs.did.tried[i].val # None
    /\ k \in DOMAIN obs.did.tried[i].val.d
    /\ Truthy(obs.did.tried[i].val.d[k])
    /\ obs.did.val.d[k] = obs.did.tried[i].val.d[k]
    /\ \A j \in 1..(i - 1) :
          (obs.did.tried[j].kind = "return" /\ obs.did.tried[j].val # None)
              => ~Truthy(FieldOf(obs.did.tried[j].val, k))

\* C19: for every record lookup_ip returns on a cache miss, the source
\* field names every resolver from which a non-empty field value of the
\* record was taken.
C19_SourceNamesContributors ==
    (obs.kind = "lookup" /\ Miss /\ obs.did.kind = "return" /\ obs.did.val # None) =>
        \A k \in RecordFields \cup {"raw"} :
            \A i \in DOMAIN obs.did.tried :
                TakenFrom(k, i) =>
                    /\ "source" \in DOMAIN obs.did.val.d
                    /\ Contains(obs.did.val.d["source"].s, <<obs.did.invoked[i]>>)

\* on a miss in auto mode the record returned has its asn from the
\* first resolver and its organization from the third, and names both
C19_Witness ==
    /\ obs.kind = "lookup"
    /\ Miss
    /\ obs.did.kind = "return"
    /\ Len(obs.did.tried) = 3
    /\ TakenFrom("asn", 1)
    /\ TakenFrom("organization", 3)
    /\ Contains(obs.did.val.d["source"].s, <<"IPWhoisResolver">>)
    /\ Contains(obs.did.val.d["source"].s, <<"SystemWhoisResolver">>)

(***************************************************************************)
(* Properties of the filtering of a batch                                  *)
(***************************************************************************)
\* the identities lookup_ip has been called with, in the order of submission
LookedUp == [i \in DOMAIN batch.log |-> batch.log[i].ip]

\* the identities of the input that validate_ip accepts, in input order
ValidOfInput == SelectSeq(batch.ips, LAMBDA ip : validate_ip(ip).ok)

\* C20: process_ips drops every syntactically invalid identity before
\* dispatch: lookup_ip is never called with a string that validate_ip
\* rejects, and each valid identity of the input is submitted.
C20_InvalidDropped ==
    batch.pc # "idle" =>
        /\ \A i \in DOMAIN batch.log : validate_ip(batch.log[i].ip).ok
        /\ \A i \in DOMAIN batch.log : batch.log[i].ip = ValidOfInput[i]
        /\ batch.pc = "returned" => LookedUp = ValidOfInput

\* the batch 8.8.8.8, 999.1.1.1, ::1 has returned, and lookup_ip was called
\* with the first and the third identity only
C20_Witness ==
    /\ batch.pc = "returned"
    /\ batch.ips = <<Ip4, BadIp, Ip6>>
    /\ LookedUp = <<Ip4, Ip6>>

(***************************************************************************)
(* Properties of the cache write of lookup_ip                              *)
(***************************************************************************)
\* the record lookup_ip has to return after the resolvers that answered
Resolved ==
    IF Len(Winners) > 1
    THEN merge_whois_results([i \in DOMAIN Winners |-> Winners[i].val])
    ELSE Winners[1].val

\* the last lookup_ip call resolved the identity and its cache write failed
CacheWriteFailed ==
    /\ obs.kind = "lookup"
    /\ use_cache
    /\ Miss
    /\ Winners # <<>>
    /\ ~set(obs.pre, obs.at, obs.ip, lookup_method, Resolved).ret

\* C22: a cache-write failure never fails a lookup: when cache.set fails
\* after a successful resolution, lookup_ip still returns the merged record.
C22_CacheWriteFailureHarmless ==
    CacheWriteFailed =>
        /\ obs.did.kind = "return"
        /\ obs.did.val = Resolved
        /\ obs.did.cache_set

\* in auto mode two resolvers answered, json.dump raised on the datetime in
\* the merged record, no entry was stored, and the merged record came back
C22_Witness ==
    /\ CacheWriteFailed
    /\ Len(Winners) > 1
    /\ obs.did.kind = "return"
    /\ obs.did.val = Resolved
    /\ ObsPath \notin DOMAIN obs.did.files

(***************************************************************************)
(* Properties of the sequential mode                                       *)
(***************************************************************************)
\* the outcomes logged so far, in the order of the identities
LoggedInOrder == [i \in 1..Cardinality(DOMAIN batch.log) |-> batch.log[i]]

\* the records of the lookups that returned, in the order of the identities
RecordsInInputOrder ==
    LET returned == SelectSeq(LoggedInOrder, LAMBDA entry : entry.kind = "return")
    IN  [i \in DOMAIN returned |-> returned[i].val]

\* C28: in sequential mode (parallel false, or at most one valid identity)
\* process_ips calls lookup_ip for the valid identities strictly in input
\* order, one at a time, and the records returned are in the input order of
\* the identities that succeeded.
C28_SequentialOrder ==
    (batch.pc # "idle" /\ ~batch.parallel) =>
        /\ batch.done = 1..Cardinality(batch.done)
        /\ DOMAIN batch.log = batch.done
        /\ \A i \in batch.done : batch.log[i].ip = batch.valid_ips[i]
        /\ batch.results = RecordsInInputOrder
        /\ batch.pc = "returned" => batch.ret = RecordsInInputOrder

\* a sequential batch of three different lookups returned the records of
\* the first and the third, in that order, the second having failed
C28_Witness ==
    /\ batch.pc = "returned"
    /\ ~batch.parallel
    /\ batch.valid_ips = <<Ip4, Ip6, Ip4>>
    /\ batch.log[2].kind = "raise"
    /\ Len(batch.ret) = 2
    /\ batch.ret = <<batch.log[1].val, batch.log[3].val>>

(***************************************************************************)
(* Properties of the command line entry point                              *)
(***************************************************************************)
\* every valid identity of the run was looked up and failed with "All
\* lookup methods failed"
AllMethodsFailedForAll ==
    /\ batch.valid_ips # <<>>
    /\ DOMAIN batch.log = DOMAIN batch.valid_ips
    /\ \A i \in DOMAIN batch.log :
          /\ batch.log[i].kind = "raise"
          /\ batch.log[i].msg
                 = <<"All lookup methods failed for ">> \o batch.valid_ips[i]

\* C24: when every identity of a run fails with all lookup methods failed,
\* the command-line entry point exits with code 1.
C24_ExitCodeOnFailure ==
    (batch.pc = "exited" /\ AllMethodsFailedForAll) => batch.exit_code = 1

(***************************************************************************)
(* Properties of the parallel mode                                         *)
(***************************************************************************)
\* C29: in parallel mode at most max_workers lookup_ip calls are in
\* progress at any moment, and process_ips returns only after every
\* submitted lookup has completed with a result or an error.
C29_BoundedPool ==
    (batch.pc # "idle" /\ batch.parallel) =>
        /\ Cardinality(batch.running) <= batch.max_workers
        /\ batch.running \cap batch.done = {}
        /\ batch.pc = "returned" =>
              /\ batch.running = {}
              /\ DOMAIN batch.log = DOMAIN batch.valid_ips
              /\ Len(batch.results) + Len(batch.errors) = Len(batch.valid_ips)

\* three lookups were submitted to a pool of two threads: two are in
\* progress and the third waits
C29_Witness ==
    /\ batch.pc = "running"
    /\ batch.parallel
    /\ Len(batch.valid_ips) = 3
    /\ batch.max_workers = 2
    /\ batch.running = {1, 2}
    /\ batch.done = {}

(***************************************************************************)
(* Properties of a resolver's lookup, attempt by attempt                   *)
(***************************************************************************)
\* a resolver's lookup is in progress or has just ended
InLookup == run.pc \in {"limit", "attempt", "failed", "resolved"}
\* the last acquisition attempt made by the lookup in progress
LastTry == run.tries[Len(run.tries)]

\* C21: for max_retries >= 0, BaseResolver.lookup makes at most
\* max_retries + 1 acquisition attempts, stops at the first successful
\* attempt, and when every attempt fails raises a lookup-failed error that
\* wraps the error of the last attempt.
C21_RetryBound ==
    InLookup =>
        /\ Len(run.tries) <= max_retries + 1
        /\ \A k \in 1..(Len(run.tries) - 1) : ~run.tries[k].ok
        /\ run.pc = "resolved" =>
              IF LastTry.ok
              THEN run.res.kind = "return"
              ELSE /\ Len(run.tries) = max_retries + 1
                   /\ run.res.kind = "raise"
                   /\ run.res.exc = "ValueError"
                   /\ run.res.msg = <<"Lookup failed: ">> \o LastTry.msg

\* the system resolver failed twice with different errors, max_retries
\* being 1, and its lookup raised with the second error
C21_Witness ==
    /\ run.pc = "resolved"
    /\ max_retries = 1
    /\ Current.name = "SystemWhoisResolver"
    /\ run.tries = <<AcquireFailed(<<"Timeout expired for whois command">>),
                     AcquireFailed(<<"No output from whois command">>)>>
    /\ run.res.kind = "raise"
    /\ run.res.msg = <<"Lookup failed: ", "No output from whois command">>

\* C25: within one resolver instance used by a single caller, every
\* acquisition attempt (first and each retry) is preceded by the rate
\* limiter, so any two consecutive attempts of that instance start at least
\* rate_limit seconds apart, and last_request_time is changed only by the
\* rate limiter.
C25_RateLimitedAttempts ==
    [][/\ (run'.pc = "attempt") => (run.pc = "limit")
       /\ (run.pc = "attempt") =>
             /\ Len(run'.starts) = Len(run.starts) + 1
             /\ run'.starts[Len(run'.starts)] = Current.last_request_time
       /\ \A k \in 1..(Len(run'.starts) - 1) :
             run'.starts[k + 1] - run'.starts[k] >= Current.rate_limit
       /\ (run.pc \notin {"start", "limit"}) =>
             \A k \in DOMAIN run.resolvers :
                 run'.resolvers[k].last_request_time
                     = run.resolvers[k].last_request_time]_vars

\* a retry that the backoff alone would have started too early: the second
\* attempt started exactly rate_limit seconds after the first
C25_Witness ==
    /\ run.pc \in {"failed", "resolved"}
    /\ Len(run.starts) = 2
    /\ run.rate_limit > backoff_sleep(1) + run.duration
    /\ run.starts[2] - run.starts[1] = run.rate_limit
    /\ Current.last_request_time = run.starts[2]

SucceededInOrder ==
    LET ok == SelectSeq(run.acc.tried, LAMBDA res : res.kind = "return")
    IN  [k \in DOMAIN ok |-> ok[k].val]
AutoOrder == <<"IPWhoisResolver", "PythonWhoisResolver", "SystemWhoisResolver">>

\* C27: in auto mode the resolver attempts for one identity run strictly one
\* after another in order IPWhoisResolver, PythonWhoisResolver,
\* SystemWhoisResolver: a resolver's lookup starts only after the previous
\* resolver's lookup (with all its retries) has ended, and results are
\* merged in that order.
C27_AutoSequential ==
    (run.pc # "none" /\ lookup_method = "auto") =>
        /\ Len(run.lookups) <= Len(AutoOrder)
        /\ \A k \in DOMAIN run.lookups : run.lookups[k].name = AutoOrder[k]
        /\ \A k \in 1..(Len(run.lookups) - 1) :
              /\ run.lookups[k].ended # <<>>
              /\ run.lookups[k].ended[1] <= run.lookups[k + 1].began
        /\ InLookup =>
              /\ run.r = Len(run.lookups)
              /\ run.lookups[run.r].ended = <<>>
              /\ \A j \in DOMAIN run.starts :
                    run.lookups[run.r].began <= run.starts[j]
        /\ (run.ret # <<>>) =>
              /\ Len(run.lookups) = Len(AutoOrder)
              /\ \A k \in DOMAIN run.lookups : run.lookups[k].ended # <<>>
              /\ [k \in DOMAIN run.acc.invoked |-> run.acc.invoked[k]] = AutoOrder
              /\ run.ret[1].kind = "return" =>
                    run.ret[1].val = IF Len(SucceededInOrder) > 1
                                     THEN merge_whois_results(SucceededInOrder)
                                     ELSE SucceededInOrder[1]

\* in auto mode IPWhoisResolver failed after its retries, the other two
\* then succeeded in turn and their records were merged
C27_Witness ==
    /\ lookup_method = "auto"
    /\ max_retries = 1
    /\ run.ret # <<>>
    /\ run.ret[1].kind = "return"
    /\ Len(run.lookups) = 3
    /\ run.acc.tried[1].kind = "raise"
    /\ run.lookups[1].began < run.lookups[1].ended[1]
    /\ Len(SucceededInOrder) = 2
    /\ run.ret[1].val = merge_whois_results(SucceededInOrder)
    /\ run.ret[1].val.d["source"]
           = Str(<<"PythonWhoisResolver", ", ", "SystemWhoisResolver">>)

\* C23: with rate limit R (the --rate-limit option), any two acquisition
\* requests that one engine run sends to the same resolver variant,
\* including requests for different identities of a sequential batch, start
\* at least R seconds apart.  run.gap holds the seconds between the request
\* just sent and the previous request of the run to the same variant.
C23_RateLimitAcrossRun ==
    (run.pc # "none" /\ run.gap # <<>>) => run.gap[1] >= run.rate_limit

\* C30: resolvers share no mutable state: the only state a resolver lookup
\* mutates is its own instance's last_request_time, so a lookup by one
\* resolver instance never changes state that another resolver instance or a
\* concurrent lookup reads.  run.sock is the default timeout of the socket
\* module, which every socket created without a timeout of its own reads.
C30_NoSharedMutableState ==
    [][InLookup => run'.sock = run.sock]_vars

(***************************************************************************)
(* Properties of the outcomes of a batch                                   *)
(***************************************************************************)
\* C37: outcome conservation in process_ips: every valid identity of the
\* input, counted with duplicates, ends in exactly one outcome, so the number
\* of returned records plus the number of recorded failures equals the
\* number of valid input identities, in sequential and in parallel mode.
C37_OutcomeConservation ==
    (batch.pc \in {"running", "returned"}) =>
        /\ Len(batch.results) + Len(batch.errors) = Cardinality(batch.done)
        /\ \A i \in batch.done : i \in DOMAIN batch.log
        /\ batch.pc = "returned" =>
              /\ batch.done = DOMAIN ValidOfInput
              /\ Len(batch.ret) + Len(batch.errors) = Len(ValidOfInput)

\* 8.8.8.8 was given twice beside a malformed identity: one of its lookups
\* returned a record and the other failed
C37_Witness ==
    /\ batch.pc = "returned"
    /\ batch.ips = <<Ip4, BadIp, Ip4>>
    /\ Len(batch.ret) = 1
    /\ Len(batch.errors) = 1

(***************************************************************************)
(* Properties of the result of a lookup                                    *)
(***************************************************************************)
\* C38: for every integer max_retries (zero and negative values included)
\* and every behaviour of the acquisition step, BaseResolver.lookup on a
\* valid identity terminates and either returns a normalized record or
\* raises; it never returns without a record, so lookup_ip never returns or
\* caches an absent result.
C38_LookupYieldsRecord ==
    (obs.kind = "lookup" /\ validate_ip(obs.ip).ok) =>
        /\ \A k \in DOMAIN obs.did.tried :
              obs.did.tried[k].kind = "return" => obs.did.tried[k].val # None
        /\ obs.did.kind = "return" => obs.did.val # None

(***************************************************************************)
(* Properties of the records given to merge_whois_results                  *)
(***************************************************************************)
\* C34: merge_whois_results leaves every input record unchanged (the base is
\* copied before filling) and the merged record's raw field is the raw of
\* the first record only.
C34_MergeLeavesInputs ==
    obs.kind = "merged" =>
        /\ obs.results = obs.given
        /\ obs.given # <<>> =>
              /\ "raw" \in DOMAIN obs.merged.d <=> "raw" \in DOMAIN obs.given[1].d
              /\ "raw" \in DOMAIN obs.merged.d =>
                    obs.merged.d["raw"] = obs.given[1].d["raw"]

\* the first record lacks the field the second has: the merged record took
\* it, the first record still lacks it, and raw is the first record's
C34_Witness ==
    /\ obs.kind = "merged"
    /\ Len(obs.given) = 2
    /\ "raw" \in DOMAIN obs.given[1].d
    /\ "raw" \in DOMAIN obs.given[2].d
    /\ obs.given[1].d["raw"] # obs.given[2].d["raw"]
    /\ "organization" \notin DOMAIN obs.given[1].d
    /\ FieldOf(obs.merged, "organization") = Str(<<"A">>)
    /\ "organization" \notin DOMAIN obs.results[1].d
    /\ obs.merged.d["raw"] = obs.given[1].d["raw"]

(***************************************************************************)
(* Properties of the network of a record                                   *)
(***************************************************************************)
\* the raw result holds a mapping under network
NestedNetwork == "network" \in DOMAIN obs.raw.d /\ obs.raw.d["network"].t = "dict"
\* what the mapping under network holds
Nested == obs.raw.d["network"].d

\* C33: the record's network is the nested network object's cidr when
\* present, else '{start}-{end}' built from the nested start/end address
\* pair, else the value of a flat cidr field or of a flat (non-mapping)
\* network field of the raw data; so a raw result with only a flat network
\* string, as the system resolver produces, yields that string as network.
C33_NetworkRule ==
    obs.kind = "normalized" =>
        obs.record.d["network"] =
            IF NestedNetwork /\ "cidr" \in DOMAIN Nested
            THEN Nested["cidr"]
            ELSE IF NestedNetwork /\ "start_address" \in DOMAIN Nested
                    /\ "end_address" \in DOMAIN Nested
            THEN Str(Nested["start_address"].s \o <<"-">> \o Nested["end_address"].s)
            ELSE IF "cidr" \in DOMAIN obs.raw.d
            THEN obs.raw.d["cidr"]
            ELSE IF "network" \in DOMAIN obs.raw.d /\ ~NestedNetwork
            THEN obs.raw.d["network"]
            ELSE None

(***************************************************************************)
(* Properties of the system resolver                                       *)
(***************************************************************************)
\* the lines of the output that the parser does not skip
ParsedLines == SelectSeq(obs.proc.stdout, LAMBDA line : line.label \notin {"", "%", "#"})
\* the lines that set the field key
SettingLines(key) ==
    {i \in DOMAIN ParsedLines :
         search(key, 1, ParsedLines[i]).matched \/ search(key, 2, ParsedLines[i]).matched}
\* what the i-th parsed line sets the field key to
ValueSet(key, i) ==
    IF search(key, 1, ParsedLines[i]).matched
    THEN Str(search(key, 1, ParsedLines[i]).group)
    ELSE Str(search(key, 2, ParsedLines[i]).group)

\* C31: SystemWhoisResolver parsing is first-match-wins per field: once a
\* field (organization, country, asn, network, registered) has been set from
\* a line of the whois output, no later line changes its value.
C31_FirstMatchWins ==
    (obs.kind = "acquired" /\ obs.did.kind = "return") =>
        \A key \in DOMAIN patterns :
            SettingLines(key) # {} =>
                \E i \in SettingLines(key) :
                    /\ \A j \in SettingLines(key) : i <= j
                    /\ obs.did.val.d[key] = ValueSet(key, i)

\* C32: SystemWhoisResolver acquisition succeeds exactly when the process
\* ends within the timeout with non-empty output, whatever its exit code;
\* empty output (with any exit code) and a timeout are failures reported as
\* a lookup error.
C32_SystemAcquisition ==
    obs.kind = "acquired" =>
        /\ obs.did.kind = "return" <=> (obs.proc.ended /\ obs.proc.stdout # <<>>)
        /\ obs.did.kind = "raise" => obs.did.exc \in {"ValueError", "UnicodeDecodeError"}

(***************************************************************************)
(* Properties of leftover temp files                                       *)
(***************************************************************************)
\* the temp files of a file system, and the file system without them
TempFiles(fs) == {p \in DOMAIN fs : endswith(p, ".tmp")}
WithoutTemp(fs) == [p \in DOMAIN fs \ TempFiles(fs) |-> fs[p]]

\* C35: leftover .tmp files from interrupted writes are never treated as
\* cache entries: get never reads one, and clean_expired neither deletes nor
\* counts them; clean_expired returns 0 when the cache directory is missing.
C35_LeftoversIgnored ==
    /\ last.op = "get" =>
          /\ last.ret = get(WithoutTemp(last.pre), last.at, last.ip, last.method)
          /\ _get_cache_path(last.ip, last.method) \notin DOMAIN last.pre
                => last.ret = None
    /\ last.op = "clean" =>
          /\ \A p \in TempFiles(last.pre) : p \in DOMAIN files /\ files[p] = last.pre[p]
          /\ last.ret = Cardinality(DOMAIN WithoutTemp(last.pre) \ DOMAIN files)
          /\ ~last.exists => (last.ret = 0 /\ files = last.pre)

\* beside a stale entry lay a temp file cut short: clean_expired removed the
\* entry, returned 1 and left the temp file
C35_Witness ==
    /\ last.op = "clean"
    /\ last.exists
    /\ last.ret = 1
    /\ _get_cache_path(Ip4, lookup_method) \in DOMAIN last.pre
    /\ _get_cache_path(Ip4, lookup_method) \notin DOMAIN files
    /\ temp_path(_get_cache_path(Ip4, lookup_method)) \in DOMAIN files
    /\ files[temp_path(_get_cache_path(Ip4, lookup_method))] = Truncated

(***************************************************************************)
(* Properties of the files the cache touches                               *)
(***************************************************************************)
\* path names a file directly in the cache directory
DirectChild(path) ==
    /\ Len(path) > Len(cache_dir) + 1
    /\ SubSeq(path, 1, Len(cache_dir) + 1) = cache_dir \o <<"/">>
    /\ \A i \in (Len(cache_dir) + 2)..Len(path) : path[i] # "/"

\* the files a call changed, created or removed
Touched(before, after) ==
    {p \in DOMAIN before \cup DOMAIN after :
        p \notin DOMAIN before \/ p \notin DOMAIN after \/ before[p] # after[p]}

\* C36: every file the cache reads, writes or renames is a direct child of
\* the cache directory, for every identity validate_ip accepts (a scoped
\* IPv6 address included) and for every string passed directly to lookup_ip.
C36_CacheFilesInsideDirectory ==
    obs.kind = "lookup" =>
        /\ obs.did.cache_read => DirectChild(_get_cache_path(obs.ip, lookup_method))
        /\ \A p \in Touched(obs.pre, obs.did.files) : DirectChild(p)
        /\ (obs.did.kind = "return" /\ obs.did.constructed = <<>>) =>
              \E p \in DOMAIN obs.pre :
                  /\ DirectChild(p)
                  /\ obs.pre[p] \in {EntryText(Num(t), obs.did.val) : t \in 0..MaxTime}

(***************************************************************************)
(* Properties of clean_expired beside set                                  *)
(***************************************************************************)
\* C39: clean_expired never removes a fresh entry, also when it runs
\* concurrently with set: every file it removes is, when it is removed, an
\* entry older than ttl or a file that does not parse, so no interleaving
\* ends with the entry set has just written deleted.
C39_CleanKeepsFreshEntries ==
    last.op = "clean" =>
        \A r \in last.removed : clean_removes(r.text, r.at)

(***************************************************************************)
(* Properties of the resolver instances of a pool                          *)
(***************************************************************************)
\* the workers whose lookup is inside a resolver
Busy == {w \in PoolThreads : run.workers[w].pc # "idle"}

\* C40: every lookup_ip call builds its own resolver instances, so no
\* resolver instance, and no last_request_time, is ever used by two lookups,
\* concurrent or successive, and the unlocked rate-limiter state is never
\* accessed by two threads.
C40_OwnResolverInstances ==
    run.pc = "pool" =>
        /\ \A id \in DOMAIN run.users :
              \A u \in run.users[id], v \in run.users[id] :
                  u.call = v.call /\ u.worker = v.worker
        /\ \A w \in Busy, v \in Busy :
              w # v => Instance(w) # Instance(v)
        /\ \A w \in Busy :
              (run.workers[w].pc = "stamp" /\ run.workers[w].retry_count = 0)
                  => run.workers[w].seen = 0

\* two threads are inside lookups at once, each at an instance of the same
\* class that it has used, and one of them is at its second lookup
C40_Witness ==
    /\ run.pc = "pool"
    /\ \E w \in Busy, v \in Busy :
          /\ w # v
          /\ run.instances[Instance(w)].name = run.instances[Instance(v)].name
          /\ run.users[Instance(w)] # {}
          /\ run.users[Instance(v)] # {}
          /\ \E id \in DOMAIN run.users :
                /\ run.instances[id].name = run.instances[Instance(w)].name
                /\ \E u \in run.users[id] : u.worker = w /\ u.call < run.workers[w].call

====
